---- MODULE Spec2Model ----
(***************************************************************************)
(* Model of the localstack AWS protocol layer: the Query request parser,   *)
(* the response serializers' error path, the handler calling convention    *)
(* and the dispatch skeleton.                                               *)
(*                                                                         *)
(* Text is modelled as a sequence of one-character strings, so that        *)
(* startswith, slicing, splitting and percent-coding are computed the way  *)
(* the Python code computes them.  Python values are tagged records        *)
(* [t |-> tag, v |-> payload]; a dict is an insertion-ordered sequence of  *)
(* <<key, value>> pairs with distinct keys.                                *)
(***************************************************************************)
EXTENDS Integers, Sequences, FiniteSets, TLC

\* ------------------------------------------------------------------------
\* Bounds of the model
\* ------------------------------------------------------------------------
MaxLen == 2
MaxIndex == 4

\* ------------------------------------------------------------------------
\* Text helpers
\* ------------------------------------------------------------------------
DigitChars == <<"0", "1", "2", "3", "4", "5", "6", "7", "8", "9">>

UpperChars == <<"A", "B", "C", "D", "E", "F", "G", "H", "I", "J", "K", "L", "M",
                "N", "O", "P", "Q", "R", "S", "T", "U", "V", "W", "X", "Y", "Z">>

LowerChars == <<"a", "b", "c", "d", "e", "f", "g", "h", "i", "j", "k", "l", "m",
                "n", "o", "p", "q", "r", "s", "t", "u", "v", "w", "x", "y", "z">>

IsUpper(c) == \E i \in 1..26 : UpperChars[i] = c

IsLower(c) == \E i \in 1..26 : LowerChars[i] = c

IsDigit(c) == \E i \in 1..10 : DigitChars[i] = c

LowerChar(c) == IF IsUpper(c) THEN LowerChars[CHOOSE i \in 1..26 : UpperChars[i] = c] ELSE c

\* str.lower()
Lower(s) == [i \in 1..Len(s) |-> LowerChar(s[i])]

\* s[n:] for n >= 0 (1-based: drops the first n characters)
DropFirst(s, n) == IF n >= Len(s) THEN <<>> ELSE SubSeq(s, n + 1, Len(s))

\* str.startswith
StartsWith(s, p) == Len(p) <= Len(s) /\ SubSeq(s, 1, Len(p)) = p

\* str(i) for a natural number
RECURSIVE IntToStr(_)
IntToStr(n) == IF n < 10 THEN <<DigitChars[n + 1]>>
               ELSE Append(IntToStr(n \div 10), DigitChars[(n % 10) + 1])

DigitVal(c) == (CHOOSE i \in 1..10 : DigitChars[i] = c) - 1

RECURSIVE DigitsToInt(_)
DigitsToInt(s) == IF s = <<>> THEN 0
                  ELSE 10 * DigitsToInt(SubSeq(s, 1, Len(s) - 1)) + DigitVal(s[Len(s)])

\* the texts int() accepts in this model: a non-empty run of decimal digits
IsIntText(s) == Len(s) > 0 /\ \A i \in 1..Len(s) : IsDigit(s[i])

\* a.b  ->  "a" + "." + "b"
Dot == <<".">>

Join2(a, b) == a \o Dot \o b

T_member == <<"m", "e", "m", "b", "e", "r">>

T_entry == <<"e", "n", "t", "r", "y">>

\* ------------------------------------------------------------------------
\* Python values
\* ------------------------------------------------------------------------
None == [t |-> "none", v |-> 0]

PStr(s) == [t |-> "str", v |-> s]

PInt(n) == [t |-> "int", v |-> n]

PBool(b) == [t |-> "bool", v |-> b]

PList(l) == [t |-> "list", v |-> l]

PDict(d) == [t |-> "dict", v |-> d]

\* an exception travelling up the call stack instead of a return value
Raise(name) == [t |-> "raise", v |-> name]

IsRaise(x) == x.t = "raise"

IsNone(x) == x.t = "none"

\* ordered dict: sequence of <<key, value>> with distinct keys
DictKeys(d) == {d[i][1] : i \in 1..Len(d)}

DictHas(d, k) == \E i \in 1..Len(d) : d[i][1] = k

DictGet(d, k) == d[CHOOSE i \in 1..Len(d) : d[i][1] = k][2]

\* d[k] = v : overwrite in place, or append
DictSet(d, k, v) == IF DictHas(d, k)
                    THEN [i \in 1..Len(d) |-> IF d[i][1] = k THEN <<k, v>> ELSE d[i]]
                    ELSE Append(d, <<k, v>>)

\* dict equality in Python ignores insertion order
DictAsFcn(d) == [k \in DictKeys(d) |-> DictGet(d, k)]

\* ------------------------------------------------------------------------
\* Shapes (botocore.model.Shape as the parser and serializer read it)
\* ------------------------------------------------------------------------
\* shape.serialization: "name" (<<>> when the key is absent), "flattened",
\* "location" ("" when the key is absent), "resultWrapper" (<<>> when absent)
Ser(name, flattened, location) ==
    [name |-> name, flattened |-> flattened, location |-> location, resultWrapper |-> <<>>]

NoSer == Ser(<<>>, FALSE, "")

Named(name) == Ser(name, FALSE, "")

Flat == Ser(<<>>, TRUE, "")

Wrapped(resultWrapper) == [NoSer EXCEPT !.resultWrapper = resultWrapper]

Scalar(type_name, ser) == [type_name |-> type_name, serialization |-> ser]

ListShape(member, ser) == [type_name |-> "list", serialization |-> ser, member |-> member]

MapShape(key, value, ser) == [type_name |-> "map", serialization |-> ser, key |-> key, value |-> value]

\* members: ordered sequence of <<member name, member shape>>
StructureShape(members, ser) ==
    [type_name |-> "structure", serialization |-> ser, members |-> members,
     is_document_type |-> FALSE]

\* a structure shape marked as a document: free-form JSON without members
DocumentShape == [StructureShape(<<>>, NoSer) EXCEPT !.is_document_type = TRUE]

\* an output structure, which the serializers also ask for its shape.name
OutputShape(name, members, ser) ==
    [type_name |-> "structure", name |-> name, serialization |-> ser, members |-> members,
     is_document_type |-> FALSE]

IsComplex(shape) == shape.type_name \in {"structure", "list", "map"}

\* ------------------------------------------------------------------------
\* RequestParser / QueryRequestParser
\* ------------------------------------------------------------------------
RECURSIVE _parse_shape(_, _)
RECURSIVE _parse_structure_from(_, _, _, _)
RECURSIVE _parse_map_from(_, _, _, _, _)
RECURSIVE _parse_list_from(_, _, _, _, _)
RECURSIVE _filter_node_from(_, _, _, _)

\* shape.serialization.get("name", default_name)
_get_serialized_name(shape, default_name) ==
    IF shape.serialization.name = <<>> THEN default_name ELSE shape.serialization.name

\* {k[len(name) + 1:]: v for k, v in node.items() if k.startswith(name)}, built in
\* the node's iteration order; a later colliding key overwrites the value
_filter_node_from(name, node, i, acc) ==
    IF i > Len(node) THEN acc
    ELSE IF StartsWith(node[i][1], name)
         THEN _filter_node_from(name, node, i + 1,
                                DictSet(acc, DropFirst(node[i][1], Len(name) + 1), node[i][2]))
         ELSE _filter_node_from(name, node, i + 1, acc)

\* returns None for an empty filter result, else the filtered dict
_filter_node(name, node) ==
    LET filtered == _filter_node_from(name, node, 1, <<>>)
    IN  IF Len(filtered) > 0 THEN PDict(filtered) ELSE None

_parse_integer(node) == IF IsIntText(node) THEN PInt(DigitsToInt(node)) ELSE Raise("ValueError")

_parse_boolean(node) ==
    LET value == Lower(node)
    IN  IF value = <<"t", "r", "u", "e">> THEN PBool(TRUE)
        ELSE IF value = <<"f", "a", "l", "s", "e">> THEN PBool(FALSE)
        ELSE Raise("ValueError")

_noop_parser(node) == PStr(node)

\* sub_node: None, PStr(text) for a primitive member, PDict(filtered) for a complex one
_process_member(member_name, member_shape, node) ==
    LET sub_node == IF IsComplex(member_shape)
                    THEN _filter_node(member_name, node)
                    ELSE IF DictHas(node, member_name)
                         THEN PStr(DictGet(node, member_name))
                         ELSE None
    IN  IF ~IsNone(sub_node) THEN _parse_shape(member_shape, sub_node.v) ELSE None

\* faulty variant: the flattened-list special case of _parse_structure left out
_member_wire_name_plain(member, member_shape) == _get_serialized_name(member_shape, member)

\* the wire name under which _parse_structure looks a member up
_member_wire_name(member, member_shape) ==
    IF member_shape.serialization.flattened /\ member_shape.type_name = "list"
    THEN _get_serialized_name(member_shape.member, member)
    ELSE _get_serialized_name(member_shape, member)

_parse_structure_from(shape, node, j, result) ==
    IF j > Len(shape.members) THEN (IF Len(result) > 0 THEN PDict(result) ELSE None)
    ELSE LET member == shape.members[j][1]
             member_shape == shape.members[j][2]
             value == _process_member(_member_wire_name(member, member_shape), member_shape, node)
         IN  IF IsRaise(value) THEN value
             ELSE IF ~IsNone(value)
                  THEN _parse_structure_from(shape, node, j + 1, DictSet(result, member, value))
                  ELSE _parse_structure_from(shape, node, j + 1, result)

_parse_structure(shape, node) == _parse_structure_from(shape, node, 1, <<>>)

\* the while-True loop of _parse_map, entered with i already incremented
_parse_map_from(shape, node, key_prefix, i, result) ==
    LET key_name == key_prefix \o IntToStr(i) \o Dot \o _get_serialized_name(shape.key, <<"k", "e", "y">>)
        value_name == key_prefix \o IntToStr(i) \o Dot
                          \o _get_serialized_name(shape.value, <<"v", "a", "l", "u", "e">>)
        k == _process_member(key_name, shape.key, node)
        v == _process_member(value_name, shape.value, node)
    IN  IF IsRaise(k) THEN k
        ELSE IF IsRaise(v) THEN v
        ELSE IF IsNone(k) \/ IsNone(v)
             THEN (IF Len(result) > 0 THEN PDict(result) ELSE None)
             ELSE _parse_map_from(shape, node, key_prefix, i + 1, DictSet(result, k.v, v))

_parse_map(shape, node) ==
    _parse_map_from(shape, node,
                    IF shape.serialization.flattened THEN <<>> ELSE <<"e", "n", "t", "r", "y", ".">>,
                    1, <<>>)

FLATTENED_LIST_PREFIX == <<"m", "e", "m", "b", "e", "r", ".">>

\* the while-True loop of _parse_list; result holds <<i, value>> pairs
_parse_list_from(shape, node, key_prefix, i, result) ==
    LET key_name == key_prefix \o IntToStr(i)
        value == _process_member(key_name, shape.member, node)
    IN  IF IsRaise(value) THEN value
        ELSE IF IsNone(value)
             THEN (IF Len(result) > 0
                   THEN PList([n \in 1..Len(result) |-> result[n][2]])
                   ELSE None)
             ELSE _parse_list_from(shape, node, key_prefix, i + 1, Append(result, <<i, value>>))

\* faulty variant: a missing index is skipped instead of ending the enumeration
RECURSIVE _parse_list_past_gaps_from(_, _, _, _, _)
_parse_list_past_gaps_from(shape, node, key_prefix, i, result) ==
    LET value == _process_member(key_prefix \o IntToStr(i), shape.member, node)
    IN  IF i > Len(node) + MaxIndex
        THEN (IF Len(result) > 0 THEN PList(result) ELSE None)
        ELSE IF IsRaise(value) THEN value
        ELSE _parse_list_past_gaps_from(shape, node, key_prefix, i + 1,
                                        IF IsNone(value) THEN result ELSE Append(result, value))

_parse_list_past_gaps(shape, node) ==
    _parse_list_past_gaps_from(shape, node,
                               IF shape.serialization.flattened THEN <<>> ELSE FLATTENED_LIST_PREFIX,
                               1, <<>>)

\* faulty variant: the collected elements sorted by descending position
_parse_list_descending(shape, node) ==
    LET parsed == _parse_list_from(shape, node,
                                   IF shape.serialization.flattened THEN <<>> ELSE FLATTENED_LIST_PREFIX,
                                   1, <<>>)
    IN  IF parsed.t = "list"
        THEN PList([n \in 1..Len(parsed.v) |-> parsed.v[Len(parsed.v) + 1 - n]])
        ELSE parsed

_parse_list(shape, node) ==
    _parse_list_from(shape, node,
                     IF shape.serialization.flattened THEN <<>> ELSE FLATTENED_LIST_PREFIX,
                     1, <<>>)

\* RequestParser._parse_shape: the location switch, then dispatch on shape.type_name
_parse_shape(shape, node) ==
    IF shape.serialization.location \in {"header", "headers", "querystring", "uri"}
    THEN Raise("NotImplementedError")
    ELSE IF shape.serialization.location # ""
    THEN Raise("UnboundLocalError")
    ELSE IF shape.type_name = "structure" THEN _parse_structure(shape, node)
    ELSE IF shape.type_name = "list" THEN _parse_list(shape, node)
    ELSE IF shape.type_name = "map" THEN _parse_map(shape, node)
    ELSE IF shape.type_name \in {"integer", "long"} THEN _parse_integer(node)
    ELSE IF shape.type_name = "boolean" THEN _parse_boolean(node)
    ELSE _noop_parser(node)

\* ------------------------------------------------------------------------
\* urllib.parse: quote_plus / urlencode / unquote / parse_qs
\* ------------------------------------------------------------------------
\* the reserved characters of the model's alphabet and their %XX escapes; every
\* other character of the alphabet is a letter, a digit or one of "_.-"
PercentTable == << <<"+", <<"%", "2", "B">> >>, <<"%", <<"%", "2", "5">> >>,
                   <<"=", <<"%", "3", "D">> >>, <<"&", <<"%", "2", "6">> >>,
                   <<":", <<"%", "3", "A">> >>, <<"/", <<"%", "2", "F">> >> >>

IsReserved(c) == \E i \in 1..Len(PercentTable) : PercentTable[i][1] = c

EscapeOf(c) == PercentTable[CHOOSE i \in 1..Len(PercentTable) : PercentTable[i][1] = c][2]

IsEscape(e) == \E i \in 1..Len(PercentTable) : PercentTable[i][2] = e

CharOf(e) == PercentTable[CHOOSE i \in 1..Len(PercentTable) : PercentTable[i][2] = e][1]

RECURSIVE quote_plus(_)
quote_plus(s) ==
    IF s = <<>> THEN <<>>
    ELSE (IF s[1] = " " THEN <<"+">>
          ELSE IF IsReserved(s[1]) THEN EscapeOf(s[1])
          ELSE <<s[1]>>) \o quote_plus(Tail(s))

\* unquote(s.replace("+", " "))
RECURSIVE unquote_plus(_)
unquote_plus(s) ==
    IF s = <<>> THEN <<>>
    ELSE IF s[1] = "+" THEN <<" ">> \o unquote_plus(Tail(s))
    ELSE IF s[1] = "%" /\ Len(s) >= 3 /\ IsEscape(SubSeq(s, 1, 3))
         THEN <<CharOf(SubSeq(s, 1, 3))>> \o unquote_plus(DropFirst(s, 3))
    ELSE <<s[1]>> \o unquote_plus(Tail(s))

\* str(v) of a query value
ToText(v) == IF v.t = "int" THEN IntToStr(v.v) ELSE v.v

\* urlencode(body): body is an ordered dict of text -> value
RECURSIVE urlencode(_)
urlencode(body) ==
    IF body = <<>> THEN <<>>
    ELSE quote_plus(body[1][1]) \o <<"=">> \o quote_plus(ToText(body[1][2]))
         \o (IF Len(body) > 1 THEN <<"&">> \o urlencode(Tail(body)) ELSE <<>>)

\* index of the first occurrence of character c in s, 0 when there is none
FirstIndex(s, c) == IF \E i \in 1..Len(s) : s[i] = c
                    THEN CHOOSE i \in 1..Len(s) : s[i] = c /\ \A j \in 1..(i - 1) : s[j] # c
                    ELSE 0

\* s.split(c)
RECURSIVE Split(_, _)
Split(s, c) == LET i == FirstIndex(s, c)
               IN  IF i = 0 THEN <<s>>
                   ELSE <<SubSeq(s, 1, i - 1)>> \o Split(DropFirst(s, i), c)

\* parse_qs(body, keep_blank_values=True) followed by _get_first on every entry:
\* empty pairs are skipped, a pair without "=" gets a blank value, and the first
\* value of a repeated name wins
RECURSIVE _parse_qs_first_from(_, _, _)
_parse_qs_first_from(pairs, i, acc) ==
    IF i > Len(pairs) THEN acc
    ELSE IF pairs[i] = <<>> THEN _parse_qs_first_from(pairs, i + 1, acc)
    ELSE LET eq == FirstIndex(pairs[i], "=")
             name == unquote_plus(IF eq = 0 THEN pairs[i] ELSE SubSeq(pairs[i], 1, eq - 1))
             value == unquote_plus(IF eq = 0 THEN <<>> ELSE DropFirst(pairs[i], eq))
         IN  _parse_qs_first_from(pairs, i + 1,
                                  IF DictHas(acc, name) THEN acc ELSE Append(acc, <<name, value>>))

parse_qs_first(body) == _parse_qs_first_from(Split(body, "&"), 1, <<>>)

\* ------------------------------------------------------------------------
\* The service model (botocore ServiceModel / OperationModel, read-only data)
\* ------------------------------------------------------------------------
\* names of error shapes, exception classes and error codes
T_Invalid == <<"I", "n", "v", "a", "l", "i", "d">>

T_Throttled == <<"T", "h", "r", "o", "t", "t", "l", "e", "d">>

T_Gone == <<"G", "o", "n", "e">>

T_InternalFailure == <<"I", "n", "t", "e", "r", "n", "a", "l", "F", "a", "i", "l", "u", "r", "e">>

T_BadValue == <<"B", "a", "d", "V", "a", "l", "u", "e">>

T_Action == <<"A", "c", "t", "i", "o", "n">>

T_Version == <<"V", "e", "r", "s", "i", "o", "n">>

ApiVersion == <<"2", "0", "1", "2">>

\* an operation without an "input" entry: operation.input_shape is None
NoShape == [type_name |-> "none"]

StringShape == Scalar("string", NoSer)

\* error shape: shape.name and shape.metadata.get("error", {}); httpStatusCode 0
\* and code <<>> stand for an absent key
ErrorShape(name, httpStatusCode, code, senderFault) ==
    [name |-> name, httpStatusCode |-> httpStatusCode, code |-> code, senderFault |-> senderFault]

\* service.metadata as the serializers read it: None stands for an absent key
Metadata(xmlNamespace, jsonVersion) == [xmlNamespace |-> xmlNamespace, jsonVersion |-> jsonVersion]

ServiceModel(service_name, protocol, metadata) ==
    [service_name |-> service_name, protocol |-> protocol, metadata |-> metadata]

ServiceName == <<"s", "q", "s">>

T_Namespace == <<"u", "r", "n", ":", "d", "o", "c">>

\* the services of the five protocols; the rest-xml one, like S3, CloudFront and
\* Route 53, has no "xmlNamespace" in its metadata
SqsService == ServiceModel(ServiceName, "query", Metadata(PStr(T_Namespace), None))

Ec2Service == ServiceModel(<<"e", "c", "2">>, "ec2", Metadata(PStr(T_Namespace), None))

RestXmlService == ServiceModel(<<"c", "d", "n">>, "rest-xml", Metadata(None, None))

JsonService == ServiceModel(<<"i", "d", "p">>, "json", Metadata(None, PStr(<<"1", ".", "1">>)))

RestJsonService == ServiceModel(<<"f", "n">>, "rest-json", Metadata(None, None))

Services == <<SqsService, Ec2Service, RestXmlService, JsonService, RestJsonService>>

\* http_responseCode 0: operation.http has no "responseCode"
Operation(name, input_shape, error_shapes, http_responseCode) ==
    [name |-> name, input_shape |-> input_shape, output_shape |-> NoShape,
     error_shapes |-> error_shapes, http_responseCode |-> http_responseCode,
     http_checksum_required |-> FALSE, service_model |-> SqsService]

EntryShape == StructureShape(<< <<<<"I", "d">>, StringShape>>,
                                <<<<"R", "h">>, StringShape>> >>, NoSer)

OpSend == [Operation(<<"S", "e", "n", "d">>,
    StructureShape(<< <<<<"U", "r", "l">>, StringShape>>,
                      <<<<"D", "e", "l", "a", "y">>, Scalar("integer", NoSer)>>,
                      <<<<"F", "i", "f", "o">>, Scalar("boolean", NoSer)>> >>, NoSer),
    <<ErrorShape(T_Invalid, 0, <<>>, FALSE),
      ErrorShape(T_Throttled, 429, <<"S", "l", "o", "w">>, TRUE)>>,
    0) EXCEPT !.output_shape =
        OutputShape(<<"S", "e", "n", "d", "R", "e", "s", "p", "o", "n", "s", "e">>,
                    << <<<<"I", "d">>, StringShape>>,
                       <<<<"C", "o", "u", "n", "t">>, Scalar("integer", NoSer)>> >>,
                    Wrapped(<<"S", "e", "n", "d", "R", "e", "s", "u", "l", "t">>))]

\* SNS-like non-flattened list of strings: Keys.member.N
OpTag == Operation(<<"T", "a", "g">>,
    StructureShape(<< <<<<"K", "e", "y", "s">>, ListShape(StringShape, NoSer)>> >>, NoSer),
    <<ErrorShape(T_Invalid, 404, <<>>, TRUE)>>,
    0)

\* its flattened twin, the list member carrying the wire name: Key.N
OpTagF == Operation(<<"T", "a", "g", "F">>,
    StructureShape(<< <<<<"K", "e", "y", "s">>,
                        ListShape(Scalar("string", Named(<<"K", "e", "y">>)), Flat)>> >>, NoSer),
    <<>>,
    0)

\* SQS DeleteMessageBatch: flattened list of structures, Entry.N.Id
OpDel == Operation(<<"D", "e", "l">>,
    StructureShape(<< <<<<"E", "n", "t", "r", "i", "e", "s">>,
                        ListShape([EntryShape EXCEPT !.serialization = Named(<<"E", "n", "t", "r", "y">>)],
                                  Flat)>> >>, NoSer),
    <<>>,
    0)

\* CloudFormation-like non-flattened list of structures: Entries.member.N.Id
OpDelN == Operation(<<"D", "e", "l", "N">>,
    StructureShape(<< <<<<"E", "n", "t", "r", "i", "e", "s">>, ListShape(EntryShape, NoSer)>> >>, NoSer),
    <<>>,
    0)

\* SQS SetQueueAttributes: flattened map, Attribute.N.Name / Attribute.N.Value
OpAttr == Operation(<<"A", "t", "t", "r">>,
    StructureShape(<< <<<<"A", "t", "t", "r", "i", "b", "u", "t", "e", "s">>,
                        MapShape(Scalar("string", Named(<<"N", "a", "m", "e">>)),
                                 Scalar("string", Named(<<"V", "a", "l", "u", "e">>)),
                                 Ser(<<"A", "t", "t", "r", "i", "b", "u", "t", "e">>, TRUE, ""))>> >>, NoSer),
    <<>>,
    201)

\* SNS SetEndpointAttributes: non-flattened map, Attributes.entry.N.key / .value
OpAttrN == Operation(<<"A", "t", "t", "r", "N">>,
    StructureShape(<< <<<<"A", "t", "t", "r", "i", "b", "u", "t", "e", "s">>,
                        MapShape(StringShape, StringShape, NoSer)>> >>, NoSer),
    <<>>,
    0)

\* a nested structure member
OpConf == [Operation(<<"C", "o", "n", "f">>,
    StructureShape(<< <<<<"C", "o", "n", "f", "i", "g">>,
                        StructureShape(<< <<<<"M", "o", "d", "e">>, StringShape>>,
                                          <<<<"S", "i", "z", "e">>, Scalar("integer", NoSer)>> >>, NoSer)>>,
                      <<<<"U", "r", "l">>, StringShape>> >>, NoSer),
    <<>>,
    0) EXCEPT !.http_checksum_required = TRUE]

\* RDS-like non-flattened list whose member carries a wire name: Keys.item.N
OpTagM == Operation(<<"T", "a", "g", "M">>,
    StructureShape(<< <<<<"K", "e", "y", "s">>,
                        ListShape(Scalar("string", Named(<<"i", "t", "e", "m">>)), NoSer)>> >>, NoSer),
    <<>>,
    0)

\* a flattened list next to a scalar whose name extends the list's wire name
OpTagP == Operation(<<"T", "a", "g", "P">>,
    StructureShape(<< <<<<"T", "a", "g">>, ListShape(StringShape, Flat)>>,
                      <<<<"T", "a", "g", "s", "1">>, StringShape>> >>, NoSer),
    <<>>,
    0)

\* two scalar members with multi-word names, like SQS ListDeadLetterSourceQueues
OpGet == Operation(<<"G", "e", "t">>,
    StructureShape(<< <<<<"Q", "u", "e", "u", "e", "U", "r", "l">>, StringShape>>,
                      <<<<"M", "a", "x", "R", "e", "s", "u", "l", "t", "s">>, Scalar("integer", NoSer)>> >>, NoSer),
    <<>>,
    0)

\* an operation that declares no input
OpPing == Operation(<<"P", "i", "n", "g">>, NoShape, <<>>, 0)

QueryOperations == <<OpSend, OpTag, OpTagF, OpDel, OpDelN, OpAttr, OpAttrN, OpConf, OpTagM, OpTagP,
                     OpGet, OpPing>>

HasOperation(operations, name) == \E i \in 1..Len(operations) : operations[i].name = name

\* service.operation_model(name)
service_operation_model(operations, name) ==
    operations[CHOOSE i \in 1..Len(operations) : operations[i].name = name]

\* QueryRequestParser.parse: the parsed form body, the Action lookup, the walk of
\* the input shape over the whole instance
QueryRequestParser_parse(body) ==
    LET instance == parse_qs_first(body)
    IN  IF ~DictHas(instance, T_Action) THEN Raise("KeyError")
        ELSE IF ~HasOperation(QueryOperations, DictGet(instance, T_Action))
             THEN Raise("OperationNotFoundError")
        ELSE LET operation == service_operation_model(QueryOperations, DictGet(instance, T_Action))
             IN  IF operation.input_shape.type_name = "none"
                 THEN Raise("AttributeError")
                 ELSE LET parsed == _parse_shape(operation.input_shape, instance)
                      IN  IF IsRaise(parsed) THEN parsed
                          ELSE [t |-> "parsed", v |-> [operation |-> operation.name, instance |-> parsed]]

\* ------------------------------------------------------------------------
\* The reference encoder of the round-trip test: botocore's QuerySerializer
\* followed by urlencode
\* ------------------------------------------------------------------------
RECURSIVE JoinDots(_)
JoinDots(parts) == IF Len(parts) = 1 THEN parts[1]
                   ELSE parts[1] \o Dot \o JoinDots(Tail(parts))

\* '.'.join(prefix.split('.')[:-1] + [name])
ReplaceLastPart(prefix, name) ==
    LET parts == Split(prefix, ".")
    IN  JoinDots(Append(SubSeq(parts, 1, Len(parts) - 1), name))

WithPrefix(prefix, name) == IF prefix = <<>> THEN name ELSE Join2(prefix, name)

RECURSIVE Ref_serialize(_, _, _, _)
RECURSIVE Ref_serialize_members(_, _, _, _, _)
RECURSIVE Ref_serialize_elements(_, _, _, _, _)
RECURSIVE Ref_serialize_entries(_, _, _, _, _)

MemberShapeOf(shape, key) ==
    shape.members[CHOOSE j \in 1..Len(shape.members) : shape.members[j][1] = key][2]

Ref_serialize_members(serialized, value, shape, prefix, i) ==
    IF i > Len(value) THEN serialized
    ELSE LET member_shape == MemberShapeOf(shape, value[i][1])
             member_prefix == WithPrefix(prefix, _get_serialized_name(member_shape, value[i][1]))
         IN  Ref_serialize_members(Ref_serialize(serialized, value[i][2], member_shape, member_prefix),
                                   value, shape, prefix, i + 1)

Ref_serialize_elements(serialized, value, shape, list_prefix, i) ==
    IF i > Len(value) THEN serialized
    ELSE Ref_serialize_elements(
             Ref_serialize(serialized, value[i], shape.member, Join2(list_prefix, IntToStr(i))),
             value, shape, list_prefix, i + 1)

Ref_serialize_entries(serialized, value, shape, full_prefix, i) ==
    IF i > Len(value) THEN serialized
    ELSE LET key_prefix == Join2(Join2(full_prefix, IntToStr(i)),
                                 _get_serialized_name(shape.key, <<"k", "e", "y">>))
             value_prefix == Join2(Join2(full_prefix, IntToStr(i)),
                                   _get_serialized_name(shape.value, <<"v", "a", "l", "u", "e">>))
         IN  Ref_serialize_entries(
                 Ref_serialize(Ref_serialize(serialized, PStr(value[i][1]), shape.key, key_prefix),
                               value[i][2], shape.value, value_prefix),
                 value, shape, full_prefix, i + 1)

Ref_serialize(serialized, value, shape, prefix) ==
    IF shape.type_name = "structure"
    THEN Ref_serialize_members(serialized, value.v, shape, prefix, 1)
    ELSE IF shape.type_name = "list"
    THEN IF value.v = <<>>
         THEN DictSet(serialized, prefix, PStr(<<>>))
         ELSE Ref_serialize_elements(serialized, value.v, shape,
                  IF shape.serialization.flattened
                  THEN (IF shape.member.serialization.name # <<>>
                        THEN ReplaceLastPart(prefix, shape.member.serialization.name)
                        ELSE prefix)
                  ELSE Join2(prefix, _get_serialized_name(shape.member, <<"m", "e", "m", "b", "e", "r">>)),
                  1)
    ELSE IF shape.type_name = "map"
    THEN Ref_serialize_entries(serialized, value.v, shape,
             IF shape.serialization.flattened THEN prefix ELSE Join2(prefix, <<"e", "n", "t", "r", "y">>),
             1)
    ELSE IF shape.type_name = "boolean"
    THEN DictSet(serialized, prefix, PStr(IF value.v THEN <<"t", "r", "u", "e">>
                                          ELSE <<"f", "a", "l", "s", "e">>))
    ELSE DictSet(serialized, prefix, value)

\* serializer.serialize_to_request(kwargs, operation)["body"], then urlencode
Ref_encode(operation, value) ==
    urlencode(Ref_serialize(<< <<T_Action, PStr(operation.name)>>, <<T_Version, PStr(ApiVersion)>> >>,
                            value, operation.input_shape, <<>>))

\* ------------------------------------------------------------------------
\* Value trees conforming to a shape, within the bounds
\* ------------------------------------------------------------------------
StrValues == {<<"x">>, <<"a", " ", "+">>, <<>>}

IntValues == {0, 12}

RECURSIVE Values(_)
RECURSIVE StructValuesFrom(_, _)

\* sequences of at most MaxLen elements of S
SeqsUpTo(S) == UNION {[1..n -> S] : n \in 0..MaxLen}

StructValuesFrom(members, j) ==
    IF j > Len(members) THEN {<<>>}
    ELSE LET rest == StructValuesFrom(members, j + 1)
         IN  rest \cup {<< <<members[j][1], v>> >> \o r : v \in Values(members[j][2]), r \in rest}

Values(shape) ==
    IF shape.type_name = "structure" THEN {PDict(d) : d \in StructValuesFrom(shape.members, 1)}
    ELSE IF shape.type_name = "list" THEN {PList(l) : l \in SeqsUpTo(Values(shape.member))}
    ELSE IF shape.type_name = "map"
    THEN {PDict(d) : d \in {e \in SeqsUpTo({<<k.v, v>> : k \in Values(shape.key), v \in Values(shape.value)}) :
                               \A i, j \in 1..Len(e) : i # j => e[i][1] # e[j][1]}}
    ELSE IF shape.type_name \in {"integer", "long"} THEN {PInt(n) : n \in IntValues}
    ELSE IF shape.type_name = "boolean" THEN {PBool(b) : b \in BOOLEAN}
    ELSE {PStr(s) : s \in StrValues}

\* Python == on value trees: dicts compare without regard to insertion order
RECURSIVE Norm(_)
Norm(x) == IF x.t = "dict"
           THEN [t |-> "dict", v |-> [k \in DictKeys(x.v) |-> Norm(DictGet(x.v, k))]]
           ELSE IF x.t = "list"
           THEN [t |-> "list", v |-> [i \in 1..Len(x.v) |-> Norm(x.v[i])]]
           ELSE x

PyEq(a, b) == Norm(a) = Norm(b)

\* ------------------------------------------------------------------------
\* Exceptions (localstack.aws.api.core)
\* ------------------------------------------------------------------------
T_CommonServiceException ==
    <<"C", "o", "m", "m", "o", "n", "S", "e", "r", "v", "i", "c", "e",
      "E", "x", "c", "e", "p", "t", "i", "o", "n">>

\* an instance of a generated ServiceException subclass: cls is
\* error.__class__.__name__, message the constructor argument
ServiceException(cls, message) ==
    [common |-> FALSE, cls |-> cls, message |-> message,
     code |-> <<>>, status_code |-> 0, sender_fault |-> FALSE]

CommonServiceException(code, message, status_code, sender_fault) ==
    [common |-> TRUE, cls |-> T_CommonServiceException, message |-> message,
     code |-> code, status_code |-> status_code, sender_fault |-> sender_fault]

\* str(error): the argument handed to Exception.__init__
str_error(error) == error.message

\* ------------------------------------------------------------------------
\* Response serializers: the error path
\* ------------------------------------------------------------------------
\* element names of the error documents
T_ErrorResponse == <<"E", "r", "r", "o", "r", "R", "e", "s", "p", "o", "n", "s", "e">>

T_Error == <<"E", "r", "r", "o", "r">>

T_Errors == <<"E", "r", "r", "o", "r", "s">>

T_Code == <<"C", "o", "d", "e">>

T_Message == <<"M", "e", "s", "s", "a", "g", "e">>

T_Fault == <<"F", "a", "u", "l", "t">>

T_RequestId == <<"R", "e", "q", "u", "e", "s", "t", "I", "d">>

T_RequestID == <<"R", "e", "q", "u", "e", "s", "t", "I", "D">>

T_Sender == <<"S", "e", "n", "d", "e", "r">>

\* xml.etree.ElementTree.Element; attrib an ordered dict, children a sequence
Element(tag, attrib, text, children) ==
    [tag |-> tag, attrib |-> attrib, text |-> text, children |-> children]

\* ElementTree's text escaping when the tree is written out
RECURSIVE _escape_cdata(_)
_escape_cdata(text) ==
    IF text = <<>> THEN <<>>
    ELSE (IF text[1] = "&" THEN <<"&", "a", "m", "p", ";">>
          ELSE IF text[1] = "<" THEN <<"&", "l", "t", ";">>
          ELSE IF text[1] = ">" THEN <<"&", "g", "t", ";">>
          ELSE <<text[1]>>) \o _escape_cdata(Tail(text))

\* ETree.tostring: the written document, kept as the tree of its escaped texts
RECURSIVE tostring(_)
tostring(root) ==
    [tag |-> root.tag,
     attrib |-> [i \in 1..Len(root.attrib) |->
                    <<root.attrib[i][1], _escape_cdata(root.attrib[i][2])>>],
     text |-> _escape_cdata(root.text),
     children |-> [i \in 1..Len(root.children) |-> tostring(root.children[i])]]

EmptyBody == [fmt |-> "empty", doc |-> 0]

XmlBody(root) == [fmt |-> "xml", doc |-> tostring(root)]

\* json.dumps of a dict of strings
JsonBody(obj) == [fmt |-> "json", doc |-> obj]

HttpResponse(headers, body, status_code) ==
    [t |-> "response", v |-> [headers |-> headers, body |-> body, status_code |-> status_code]]

IsResponse(x) == x.t = "response"

\* a default response that ignores the operation's declared code
_create_default_response_200(operation_model) == HttpResponse(<<>>, EmptyBody, 200)

\* ResponseSerializer._create_default_response
_create_default_response(operation_model) ==
    HttpResponse(<<>>, EmptyBody,
                 IF operation_model.http_responseCode = 0 THEN 200
                 ELSE operation_model.http_responseCode)

\* next(shape for shape in operation_model.error_shapes if shape.name == name):
\* the index of the first match, 0 when the generator is exhausted
FirstErrorShape(error_shapes, name) ==
    IF \E i \in 1..Len(error_shapes) : error_shapes[i].name = name
    THEN CHOOSE i \in 1..Len(error_shapes) :
            /\ error_shapes[i].name = name
            /\ \A j \in 1..(i - 1) : error_shapes[j].name # name
    ELSE 0

ErrorTraits(code, sender_fault, status_code) ==
    [t |-> "traits", v |-> [code |-> code, sender_fault |-> sender_fault, status_code |-> status_code]]

\* a lookup that falls back to the class name and status 500 when no shape matches
_error_traits_guessed(error, operation_model) ==
    IF error.common THEN ErrorTraits(error.code, error.sender_fault, error.status_code)
    ELSE LET i == FirstErrorShape(operation_model.error_shapes, error.cls)
         IN  IF i = 0 THEN ErrorTraits(error.cls, FALSE, 500)
             ELSE ErrorTraits(IF operation_model.error_shapes[i].code = <<>>
                              THEN operation_model.error_shapes[i].name
                              ELSE operation_model.error_shapes[i].code,
                              operation_model.error_shapes[i].senderFault,
                              operation_model.error_shapes[i].httpStatusCode)

\* a lookup that resolves every exception, common ones too, through error_shapes
_error_traits_by_shape(error, operation_model) ==
    LET i == FirstErrorShape(operation_model.error_shapes, error.cls)
    IN  IF i = 0 THEN Raise("StopIteration")
        ELSE ErrorTraits(IF operation_model.error_shapes[i].code = <<>>
                         THEN operation_model.error_shapes[i].name
                         ELSE operation_model.error_shapes[i].code,
                         operation_model.error_shapes[i].senderFault,
                         operation_model.error_shapes[i].httpStatusCode)

\* serialize_error_to_response, the isinstance branch: code, sender_fault and
\* status_code of the error, or the StopIteration of next()
_error_traits(error, operation_model) ==
    IF error.common
    THEN ErrorTraits(error.code, error.sender_fault, error.status_code)
    ELSE LET i == FirstErrorShape(operation_model.error_shapes, error.cls)
         IN  IF i = 0 THEN Raise("StopIteration")
             ELSE LET shape == operation_model.error_shapes[i]
                  IN  ErrorTraits(IF shape.code = <<>> THEN shape.name ELSE shape.code,
                                  shape.senderFault,
                                  shape.httpStatusCode)

\* the status kept as the lookup gave it
_status_code_as_given(status_code) == status_code

\* status_code or 400 (None and 0 are falsy)
_status_code_or_400(status_code) == IF status_code = 0 THEN 400 ELSE status_code

\* BaseXMLResponseSerializer._add_error_tags: the children put under error_tag
_add_error_tags(code, error, sender_fault) ==
    <<Element(T_Code, <<>>, code, <<>>)>>
    \o (IF Len(str_error(error)) > 0
        THEN <<Element(T_Message, <<>>, str_error(error), <<>>)>> ELSE <<>>)
    \o (IF sender_fault
        THEN <<Element(T_Fault, <<>>, T_Sender, <<>>)>> ELSE <<>>)

\* {"xmlns": metadata.get("xmlNamespace")} if "xmlNamespace" in metadata else <otherwise>
_xmlns_attr(operation_model, otherwise) ==
    IF IsNone(operation_model.service_model.metadata.xmlNamespace) THEN otherwise
    ELSE PDict(<< <<"xmlns", operation_model.service_model.metadata.xmlNamespace.v>> >>)

\* ETree.Element(tag, attr): a TypeError when attr is None
_root_element(tag, attr, text, children) ==
    IF IsNone(attr) THEN Raise("TypeError")
    ELSE [t |-> "element", v |-> Element(tag, attr.v, text, children)]

\* serialized["body"] = ETree.tostring(root), unless building the root raised
WithBody(serialized, root) ==
    IF IsRaise(root) THEN root
    ELSE HttpResponse(serialized.v.headers, XmlBody(root.v), serialized.v.status_code)

\* BaseXMLResponseSerializer._serialize_error
BaseXML_serialize_error(error, code, sender_fault, serialized, operation_model, request_id) ==
    WithBody(serialized,
             _root_element(T_ErrorResponse, _xmlns_attr(operation_model, PDict(<<>>)), <<>>,
                 <<Element(T_Error, <<>>, <<>>, _add_error_tags(code, error, sender_fault)),
                   Element(T_RequestId, <<>>, request_id, <<>>)>>))

T_s3 == <<"s", "3">>

\* RestXMLResponseSerializer._serialize_error
RestXML_serialize_error(error, code, sender_fault, serialized, operation_model, request_id) ==
    IF operation_model.name = T_s3
    THEN WithBody(serialized,
                  _root_element(T_Error, _xmlns_attr(operation_model, None), <<>>,
                      _add_error_tags(code, error, sender_fault)
                      \o <<Element(T_RequestId, <<>>, request_id, <<>>)>>))
    ELSE BaseXML_serialize_error(error, code, sender_fault, serialized, operation_model, request_id)

\* EC2ResponseSerializer._serialize_error
EC2_serialize_error(error, code, sender_fault, serialized, operation_model, request_id) ==
    WithBody(serialized,
             _root_element(T_Errors, _xmlns_attr(operation_model, None), <<>>,
                 <<Element(T_Error, <<>>, <<>>, _add_error_tags(code, error, sender_fault)),
                   Element(T_RequestID, <<>>, request_id, <<>>)>>))

\* a JSON error body that also carries the fault marker of the XML bodies
JSON_serialize_error_with_fault(error, code, sender_fault, serialized, operation_model) ==
    HttpResponse(serialized.v.headers,
                 JsonBody(<< <<"__type", code>>, <<"message", str_error(error)>>,
                             <<"Type", IF sender_fault THEN "Sender" ELSE "Receiver">> >>),
                 serialized.v.status_code)

\* JSONResponseSerializer._serialize_error
JSON_serialize_error(error, code, sender_fault, serialized, operation_model) ==
    HttpResponse(serialized.v.headers,
                 JsonBody(<< <<"__type", code>>, <<"message", str_error(error)>> >>),
                 serialized.v.status_code)

\* the _serialize_error the serializer class of the protocol resolves to
_serialize_error(protocol, error, code, sender_fault, serialized, operation_model, request_id) ==
    IF protocol = "query"
    THEN BaseXML_serialize_error(error, code, sender_fault, serialized, operation_model, request_id)
    ELSE IF protocol = "rest-xml"
    THEN RestXML_serialize_error(error, code, sender_fault, serialized, operation_model, request_id)
    ELSE IF protocol = "ec2"
    THEN EC2_serialize_error(error, code, sender_fault, serialized, operation_model, request_id)
    ELSE JSON_serialize_error(error, code, sender_fault, serialized, operation_model)

\* botocore.utils.conditionally_calculate_md5: the digest stands for the body it is of
conditionally_calculate_md5(response) ==
    IF DictHas(response.v.headers, "Content-MD5") THEN response
    ELSE HttpResponse(DictSet(response.v.headers, "Content-MD5", [t |-> "md5", v |-> response.v.body]),
                      response.v.body, response.v.status_code)

SetHeader(response, name, value) ==
    HttpResponse(DictSet(response.v.headers, name, PStr(value)), response.v.body, response.v.status_code)

\* ResponseSerializer._prepare_additional_traits_in_response
Base_prepare_additional_traits_in_response(response, operation_model) ==
    IF operation_model.http_checksum_required THEN conditionally_calculate_md5(response)
    ELSE response

\* the JSON traits without the request-id header
JSON_prepare_additional_traits_without_id(response, operation_model, request_id) ==
    Base_prepare_additional_traits_in_response(response, operation_model)

\* JSONResponseSerializer._prepare_additional_traits_in_response
JSON_prepare_additional_traits_in_response(response, operation_model, request_id) ==
    Base_prepare_additional_traits_in_response(
        SetHeader(response, "x-amzn-requestid", request_id), operation_model)

\* the _prepare_additional_traits_in_response of the protocol's class; in the
\* REST classes BaseRestResponseSerializer runs its super() first, which for
\* rest-json is the JSON class.  request_ids: the identifiers not yet drawn
_prepare_additional_traits_in_response(protocol, response, operation_model, request_ids) ==
    IF protocol = "json"
    THEN JSON_prepare_additional_traits_in_response(response, operation_model, request_ids[1])
    ELSE IF protocol = "rest-json"
    THEN SetHeader(JSON_prepare_additional_traits_in_response(response, operation_model, request_ids[1]),
                   "x-amz-request-id", request_ids[2])
    ELSE IF protocol = "rest-xml"
    THEN SetHeader(Base_prepare_additional_traits_in_response(response, operation_model),
                   "x-amz-request-id", request_ids[1])
    ELSE Base_prepare_additional_traits_in_response(response, operation_model)

IsXmlProtocol(protocol) == protocol \in {"query", "ec2", "rest-xml"}

\* ResponseSerializer.serialize_error_to_response; request_ids are the values
\* gen_amzn_requestid_long() returns, in the order of the calls
serialize_error_to_response(protocol, error, operation_model, request_ids) ==
    LET serialized_response == _create_default_response(operation_model)
        traits == _error_traits(error, operation_model)
    IN  IF IsRaise(traits) THEN traits
        ELSE LET with_status == HttpResponse(serialized_response.v.headers,
                                             serialized_response.v.body,
                                             _status_code_or_400(traits.v.status_code))
                 with_body == _serialize_error(protocol, error, traits.v.code, traits.v.sender_fault,
                                               with_status, operation_model, request_ids[1])
             IN  IF IsRaise(with_body) THEN with_body
                 ELSE _prepare_additional_traits_in_response(
                          protocol, with_body, operation_model,
                          IF IsXmlProtocol(protocol) THEN Tail(request_ids) ELSE request_ids)

\* ------------------------------------------------------------------------
\* Response serializers: the success path of the Query protocol
\* ------------------------------------------------------------------------
T_true == <<"t", "r", "u", "e">>

T_false == <<"f", "a", "l", "s", "e">>

T_Response == <<"R", "e", "s", "p", "o", "n", "s", "e">>

T_ResponseMetadata ==
    <<"R", "e", "s", "p", "o", "n", "s", "e", "M", "e", "t", "a", "d", "a", "t", "a">>

HasMember(shape, key) == \E j \in 1..Len(shape.members) : shape.members[j][1] = key

\* six.text_type(params) of a str, an int, a bool or None
text_type(params) ==
    IF params.t = "str" THEN params.v
    ELSE IF params.t = "int" THEN IntToStr(params.v)
    ELSE IF params.t = "bool" THEN (IF params.v THEN <<"T", "r", "u", "e">>
                                    ELSE <<"F", "a", "l", "s", "e">>)
    ELSE <<"N", "o", "n", "e">>

\* bool(params) of the values handlers return
Truthy(params) ==
    IF params.t = "bool" THEN params.v
    ELSE IF params.t = "int" THEN params.v # 0
    ELSE IF params.t = "none" THEN FALSE
    ELSE Len(params.v) > 0

RECURSIVE XML_serialize(_, _, _)
RECURSIVE XML_serialize_members(_, _, _, _)
RECURSIVE XML_serialize_items(_, _, _, _, _)
RECURSIVE XML_serialize_entries(_, _, _, _, _)

\* the for loop of _serialize_type_structure over params.items()
XML_serialize_members(shape, items, i, children) ==
    IF i > Len(items) THEN PList(children)
    ELSE IF ~HasMember(shape, items[i][1]) THEN Raise("KeyError")
    ELSE LET member_shape == MemberShapeOf(shape, items[i][1])
             member_name == _get_serialized_name(member_shape, items[i][1])
         IN  IF IsNone(items[i][2])
             THEN XML_serialize_members(shape, items, i + 1, children)
             ELSE LET added == XML_serialize(member_shape, items[i][2], member_name)
                  IN  IF IsRaise(added) THEN added
                      ELSE XML_serialize_members(shape, items, i + 1, children \o added.v)

\* the for loop of _serialize_type_list
XML_serialize_items(member_shape, items, element_name, i, children) ==
    IF i > Len(items) THEN PList(children)
    ELSE LET added == XML_serialize(member_shape, items[i], element_name)
         IN  IF IsRaise(added) THEN added
             ELSE XML_serialize_items(member_shape, items, element_name, i + 1, children \o added.v)

\* the for loop of _serialize_type_map: one entry node per key
XML_serialize_entries(shape, items, entry_node_name, i, children) ==
    IF i > Len(items) THEN PList(children)
    ELSE LET key == XML_serialize(shape.key, PStr(items[i][1]),
                                  _get_serialized_name(shape.key, <<"k", "e", "y">>))
             value == XML_serialize(shape.value, items[i][2],
                                    _get_serialized_name(shape.value, <<"v", "a", "l", "u", "e">>))
         IN  IF IsRaise(key) THEN key
             ELSE IF IsRaise(value) THEN value
             ELSE XML_serialize_entries(shape, items, entry_node_name, i + 1,
                      Append(children, Element(entry_node_name, <<>>, <<>>, key.v \o value.v)))

\* BaseXMLResponseSerializer._serialize and the _serialize_type_* method it
\* dispatches to: the elements appended to xmlnode, or the exception raised
\* (structure, list, map, boolean and the default serialization)
XML_serialize(shape, params, given_name) ==
    LET name == IF shape.serialization.resultWrapper # <<>>
                THEN shape.serialization.resultWrapper ELSE given_name
    IN  IF shape.type_name = "structure"
        THEN (IF params.t # "dict" THEN Raise("AttributeError")
              ELSE LET children == XML_serialize_members(shape, params.v, 1, <<>>)
                   IN  IF IsRaise(children) THEN children
                       ELSE PList(<<Element(name, <<>>, <<>>, children.v)>>))
        ELSE IF shape.type_name = "list"
        THEN (IF params.t # "list" THEN Raise("TypeError")
              ELSE IF shape.serialization.flattened
              THEN XML_serialize_items(shape.member, params.v,
                                       _get_serialized_name(shape.member, name), 1, <<>>)
              ELSE LET children == XML_serialize_items(shape.member, params.v,
                                       _get_serialized_name(shape.member, T_member), 1, <<>>)
                   IN  IF IsRaise(children) THEN children
                       ELSE PList(<<Element(name, <<>>, <<>>, children.v)>>))
        ELSE IF shape.type_name = "map"
        THEN (IF params.t # "dict" THEN Raise("AttributeError")
              ELSE IF shape.serialization.flattened
              THEN XML_serialize_entries(shape, params.v, name, 1, <<>>)
              ELSE LET children == XML_serialize_entries(shape, params.v, T_entry, 1, <<>>)
                   IN  IF IsRaise(children) THEN children
                       ELSE PList(<<Element(name, <<>>, <<>>, children.v)>>))
        ELSE IF shape.type_name = "boolean"
        THEN PList(<<Element(name, <<>>, IF Truthy(params) THEN T_true ELSE T_false, <<>>)>>)
        ELSE PList(<<Element(name, <<>>, text_type(params), <<>>)>>)

\* QueryResponseSerializer._serialize_body_params_to_xml: the node the base
\* class serializes (None without an output shape) under <OperationResponse>
Query_serialize_body_params_to_xml(params, shape, operation_model) ==
    LET node == IF shape.type_name = "none" THEN PList(<<>>)
                ELSE XML_serialize(shape, params,
                                   IF shape.serialization.name # <<>>
                                   THEN shape.serialization.name ELSE shape.name)
    IN  IF IsRaise(node) THEN node
        ELSE _root_element(operation_model.name \o T_Response, _xmlns_attr(operation_model, None),
                           <<>>, IF node.v = <<>> THEN <<>> ELSE <<node.v[1]>>)

\* QueryResponseSerializer._prepare_additional_traits_in_xml
Query_prepare_additional_traits_in_xml(root, request_id) ==
    [root EXCEPT !.children =
        Append(@, Element(T_ResponseMetadata, <<>>, <<>>,
                          <<Element(T_RequestId, <<>>, request_id, <<>>)>>))]

\* BaseXMLResponseSerializer._serialize_body_params for the Query class
Query_serialize_body_params(params, shape, operation_model, request_id) ==
    LET root == Query_serialize_body_params_to_xml(params, shape, operation_model)
    IN  IF IsRaise(root) THEN root
        ELSE [t |-> "element", v |-> Query_prepare_additional_traits_in_xml(root.v, request_id)]

\* ResponseSerializer.serialize_to_response of the Query serializer; no output
\* shape of the modelled operations names a payload member, so
\* _serialize_payload takes its last branch
Query_serialize_to_response(response, operation_model, request_id) ==
    LET serialized_response == _create_default_response(operation_model)
        with_body == WithBody(serialized_response,
                              Query_serialize_body_params(response, operation_model.output_shape,
                                                          operation_model, request_id))
    IN  IF IsRaise(with_body) THEN with_body
        ELSE _prepare_additional_traits_in_response("query", with_body, operation_model, <<>>)

\* ------------------------------------------------------------------------
\* Handlers (localstack.aws.api.core.ServiceRequestHandler)
\* ------------------------------------------------------------------------
Underscore == <<"_">>

T_context == <<"c", "o", "n", "t", "e", "x", "t">>

\* the end of the run of lower-case letters that starts at position j
RECURSIVE LowerRunEnd(_, _)
LowerRunEnd(s, j) == IF j < Len(s) /\ IsLower(s[j + 1]) THEN LowerRunEnd(s, j + 1) ELSE j

\* _first_cap_regex.sub(r'\1_\2', name) with the pattern (.)([A-Z][a-z]+)
RECURSIVE _first_cap_sub(_)
_first_cap_sub(s) ==
    IF \E i \in 1..(Len(s) - 2) : IsUpper(s[i + 1]) /\ IsLower(s[i + 2])
    THEN LET i == CHOOSE i \in 1..(Len(s) - 2) :
                     /\ IsUpper(s[i + 1]) /\ IsLower(s[i + 2])
                     /\ \A k \in 1..(i - 1) : ~(IsUpper(s[k + 1]) /\ IsLower(s[k + 2]))
             j == LowerRunEnd(s, i + 2)
         IN  SubSeq(s, 1, i) \o Underscore \o SubSeq(s, i + 1, j)
             \o _first_cap_sub(SubSeq(s, j + 1, Len(s)))
    ELSE s

\* _end_cap_regex.sub(r'\1_\2', s) with the pattern ([a-z0-9])([A-Z])
RECURSIVE _end_cap_sub(_)
_end_cap_sub(s) ==
    IF \E i \in 1..(Len(s) - 1) : (IsLower(s[i]) \/ IsDigit(s[i])) /\ IsUpper(s[i + 1])
    THEN LET i == CHOOSE i \in 1..(Len(s) - 1) :
                     /\ (IsLower(s[i]) \/ IsDigit(s[i])) /\ IsUpper(s[i + 1])
                     /\ \A k \in 1..(i - 1) : ~((IsLower(s[k]) \/ IsDigit(s[k])) /\ IsUpper(s[k + 1]))
         IN  SubSeq(s, 1, i) \o Underscore \o <<s[i + 1]>>
             \o _end_cap_sub(SubSeq(s, i + 2, Len(s)))
    ELSE s

\* the start of the run of upper-case letters that ends at position j
RECURSIVE UpperRunStart(_, _)
UpperRunStart(s, j) == IF j > 1 /\ IsUpper(s[j - 1]) THEN UpperRunStart(s, j - 1) ELSE j

\* _special_case_transform, [A-Z]{2,}s$ : names like ARNs become _arns
_special_case(s) ==
    IF /\ Len(s) >= 3
       /\ s[Len(s)] = "s"
       /\ IsUpper(s[Len(s) - 1])
       /\ IsUpper(s[Len(s) - 2])
    THEN LET start == UpperRunStart(s, Len(s) - 1)
         IN  SubSeq(s, 1, start - 1) \o Underscore \o Lower(SubSeq(s, start, Len(s)))
    ELSE s

\* botocore.xform_name
xform_name(name) ==
    IF \E i \in 1..Len(name) : name[i] = "_" THEN name
    ELSE Lower(_end_cap_sub(_first_cap_sub(_special_case(name))))

ServiceRequestHandler(operation, pass_context, expand_parameters) ==
    [operation |-> operation, pass_context |-> pass_context,
     expand_parameters |-> expand_parameters]

\* the RequestContext of an invocation
RequestContext(request) == [t |-> "context", v |-> request]

\* {xform_name(k): v for k, v in request.items()}
RECURSIVE XformItems(_, _, _)
XformItems(items, i, kwargs) ==
    IF i > Len(items) THEN kwargs
    ELSE XformItems(items, i + 1, DictSet(kwargs, xform_name(items[i][1]), items[i][2]))

\* ServiceRequestHandler.__call__: the positional and keyword arguments
\* self.fn is called with, after the delegate
ServiceRequestHandler_call(self, context, request) ==
    IF ~self.expand_parameters
    THEN [args |-> (IF self.pass_context THEN <<context>> ELSE <<>>) \o <<request>>,
          kwargs |-> <<>>]
    ELSE [args |-> <<>>,
          kwargs |-> DictSet(IF IsNone(request) THEN <<>> ELSE XformItems(request.v, 1, <<>>),
                             T_context, context)]

\* ------------------------------------------------------------------------
\* Skeleton
\* ------------------------------------------------------------------------
\* Skeleton.__init__: the loop over the delegate's handlers, in member order
RECURSIVE Skeleton_dispatch_table(_, _, _)
Skeleton_dispatch_table(delegate, i, table) ==
    IF i > Len(delegate) THEN table
    ELSE Skeleton_dispatch_table(delegate, i + 1, DictSet(table, delegate[i].operation, delegate[i]))

\* what a handler raises: a ServiceException instance or a built-in fault
Raised(type, error) == [type |-> type, error |-> error]

\* a try statement that takes every fault the way it takes NotImplementedError
ExceptClause_any_fault(exception) ==
    IF exception.type = "ServiceException" THEN "ServiceException" ELSE "NotImplementedError"

\* a try statement without except clauses
ExceptClause_none(exception) == "none"

\* the except clause of Skeleton.invoke's try statement that takes an
\* exception raised in its body
ExceptClause(exception) ==
    IF exception.type = "ServiceException" THEN "ServiceException"
    ELSE IF exception.type = "NotImplementedError" THEN "NotImplementedError"
    ELSE "none"

T_NotImplementedPrefix ==
    <<"A", "P", "I", " ", "a", "c", "t", "i", "o", "n", " ", "'">>

T_NotImplementedInfix ==
    <<"'", " ", "f", "o", "r", " ", "s", "e", "r", "v", "i", "c", "e", " ", "'">>

T_NotImplementedSuffix ==
    <<"'", " ", "n", "o", "t", " ", "y", "e", "t", " ",
      "i", "m", "p", "l", "e", "m", "e", "n", "t", "e", "d">>

\* a CommonServiceException of the default status that names nothing
NotImplementedException_unnamed(operation) ==
    CommonServiceException(T_InternalFailure, T_NotImplementedPrefix \o T_NotImplementedSuffix,
                           400, FALSE)

\* the CommonServiceException the NotImplementedError clause builds
NotImplementedException(operation) ==
    CommonServiceException(
        T_InternalFailure,
        T_NotImplementedPrefix \o operation.name \o T_NotImplementedInfix
        \o operation.service_model.service_name \o T_NotImplementedSuffix,
        501, FALSE)

\* ------------------------------------------------------------------------
\* State
\* ------------------------------------------------------------------------
\* q_*: one request handed to the Query parser and what parse() gave
\* s_*: one error handed to a serializer and what serialize_error_to_response gave
\* dispatch_table: the Skeleton's table; sk_*: the invocation in progress, its
\* position in invoke (sk_pc), the parsed operation and instance, the
\* arguments the handler function was called with, the handlers called in
\* this invocation (sk_handlers), what the handler did and what invoke gave
\* back
\* r_*: a REST parser, its operation_lookup table, the last request handed to
\* parse() and what parse() gave
\* invocations: the invoke calls of concurrent threads on one Skeleton, each
\* with its position and locals
\* b_*: one request handed to the parser of a protocol that sends every
\* parameter in the body (query, ec2, json) and what parse() gave
\* o_*: one call of serialize_to_response or serialize_error_to_response on
\* the serializer of a service and what it gave
\* queues, queue_url_index: the two dicts of an SqsProvider, their values the
\* positions of the queue objects in sq_heap; sq_calls: the call each client
\* is in, with its position and locals; sq_timers: the Timer threads started
\* and not yet run; sq_sent: the messages built by send_message, in the order
\* built; sq_received: the messages handed out by receive_message, in the
\* order taken from their queues; sq_budget: the calls made so far; sq_last:
\* how the call that ended last ended
VARIABLES q_source, q_body, q_result,
          s_service, s_operation, s_error, s_request_ids, s_result,
          dispatch_table, sk_pc, sk_request, sk_operation, sk_instance, sk_call,
          sk_handlers, sk_outcome, sk_response,
          r_protocol, operation_lookup, r_request, r_result,
          invocations,
          b_protocol, b_request, b_result,
          o_service, o_operation, o_call, o_request_ids, o_result,
          c_value, c_text, c_bytes,
          queues, queue_url_index, sq_heap, sq_calls, sq_timers, sq_sent, sq_received,
          sq_budget, sq_last

vars_query == <<q_source, q_body, q_result>>

vars_serializer == <<s_service, s_operation, s_error, s_request_ids, s_result>>

vars_invocation == <<sk_request, sk_operation, sk_instance, sk_call, sk_handlers, sk_outcome,
                     sk_response>>

vars_skeleton == <<dispatch_table, sk_pc, vars_invocation>>

vars_rest == <<r_protocol, operation_lookup, r_request, r_result>>

vars_threads == <<invocations>>

vars_body == <<b_protocol, b_request, b_result>>

vars_response == <<o_service, o_operation, o_call, o_request_ids, o_result>>

vars_codec == <<c_value, c_text, c_bytes>>

vars_sqs == <<queues, queue_url_index, sq_heap, sq_calls, sq_timers, sq_sent, sq_received,
              sq_budget, sq_last>>

vars_others == <<vars_rest, vars_threads, vars_body, vars_response, vars_codec, vars_sqs>>

vars == <<vars_query, vars_serializer, vars_skeleton, vars_others>>

Pending == [t |-> "pending", v |-> 0]

\* the value of a variable the specification at hand does not use
Unused == [t |-> "unused", v |-> 0]

QueryUnused == q_source = Unused /\ q_body = Unused /\ q_result = Unused

SkeletonUnused ==
    /\ dispatch_table = Unused
    /\ sk_pc = "unused"
    /\ sk_request = Unused
    /\ sk_operation = Unused
    /\ sk_instance = Unused
    /\ sk_call = Unused
    /\ sk_handlers = Unused
    /\ sk_outcome = Unused
    /\ sk_response = Unused

SerializerUnused ==
    /\ s_service = Unused
    /\ s_operation = Unused
    /\ s_error = Unused
    /\ s_request_ids = Unused
    /\ s_result = Unused

RestUnused ==
    /\ r_protocol = "unused"
    /\ operation_lookup = Unused
    /\ r_request = Unused
    /\ r_result = Unused

ThreadsUnused == invocations = Unused

BodyUnused == b_protocol = "unused" /\ b_request = Unused /\ b_result = Unused

ResponseUnused ==
    /\ o_service = Unused
    /\ o_operation = Unused
    /\ o_call = Unused
    /\ o_request_ids = Unused
    /\ o_result = Unused

CodecUnused ==
    /\ c_value = Unused
    /\ c_text = Unused
    /\ c_bytes = Unused

SqsUnused ==
    /\ queues = Unused
    /\ queue_url_index = Unused
    /\ sq_heap = Unused
    /\ sq_calls = Unused
    /\ sq_timers = Unused
    /\ sq_sent = Unused
    /\ sq_received = Unused
    /\ sq_budget = Unused
    /\ sq_last = Unused

OthersUnused == RestUnused /\ ThreadsUnused /\ BodyUnused /\ ResponseUnused /\ CodecUnused /\ SqsUnused

\* ------------------------------------------------------------------------
\* Requests handed to the Query parser
\* ------------------------------------------------------------------------
\* the elements of a set of numbers in ascending order
RECURSIVE SortedSeq(_)
SortedSeq(S) == IF S = {} THEN <<>>
                ELSE LET m == CHOOSE x \in S : \A y \in S : x <= y
                     IN  <<m>> \o SortedSeq(S \ {m})

Reverse(s) == [i \in 1..Len(s) |-> s[Len(s) + 1 - i]]

ElemText(i) == <<"v">> \o IntToStr(i)

KeyText(i) == <<"k">> \o IntToStr(i)

\* the operations with an indexed (list or map) member
IndexedOps == {OpTag.name, OpTagF.name, OpDel.name, OpDelN.name, OpAttr.name, OpAttrN.name}

\* the wire keys of the entry at index i, as a client writes them
IndexedPairs(op, i) ==
    IF op = OpTag.name THEN << <<Join2(Join2(<<"K", "e", "y", "s">>, T_member), IntToStr(i)), ElemText(i)>> >>
    ELSE IF op = OpTagF.name THEN << <<Join2(<<"K", "e", "y">>, IntToStr(i)), ElemText(i)>> >>
    ELSE IF op = OpDel.name
    THEN << <<Join2(Join2(<<"E", "n", "t", "r", "y">>, IntToStr(i)), <<"I", "d">>), ElemText(i)>> >>
    ELSE IF op = OpDelN.name
    THEN << <<Join2(Join2(Join2(<<"E", "n", "t", "r", "i", "e", "s">>, T_member), IntToStr(i)),
                    <<"I", "d">>), ElemText(i)>> >>
    ELSE IF op = OpAttr.name
    THEN << <<Join2(Join2(<<"A", "t", "t", "r", "i", "b", "u", "t", "e">>, IntToStr(i)),
                    <<"N", "a", "m", "e">>), KeyText(i)>>,
            <<Join2(Join2(<<"A", "t", "t", "r", "i", "b", "u", "t", "e">>, IntToStr(i)),
                    <<"V", "a", "l", "u", "e">>), ElemText(i)>> >>
    ELSE << <<Join2(Join2(Join2(<<"A", "t", "t", "r", "i", "b", "u", "t", "e", "s">>, T_entry), IntToStr(i)),
                    <<"k", "e", "y">>), KeyText(i)>>,
            <<Join2(Join2(Join2(<<"A", "t", "t", "r", "i", "b", "u", "t", "e", "s">>, T_entry), IntToStr(i)),
                    <<"v", "a", "l", "u", "e">>), ElemText(i)>> >>

RECURSIVE ConcatPairs(_, _)
ConcatPairs(op, order) == IF order = <<>> THEN <<>>
                          ELSE IndexedPairs(op, order[1]) \o ConcatPairs(op, Tail(order))

RECURSIVE PlainPairs(_)
PlainPairs(pairs) == IF pairs = <<>> THEN <<>>
                     ELSE << <<pairs[1][1], PStr(pairs[1][2])>> >> \o PlainPairs(Tail(pairs))

IndexedBody(op, indices, reversed) ==
    urlencode(<< <<T_Action, PStr(op)>> >>
              \o PlainPairs(ConcatPairs(op, IF reversed THEN Reverse(SortedSeq(indices))
                                            ELSE SortedSeq(indices))))

\* hand-written bodies: no Action, an unknown Action, an operation without input,
\* values int() and the boolean parser reject or accept, a key without "="
RawBodies ==
    { <<>>,
      <<"V", "e", "r", "s", "i", "o", "n", "=", "1">>,
      <<"A", "c", "t", "i", "o", "n", "=", "N", "o", "p", "e">>,
      <<"A", "c", "t", "i", "o", "n", "=", "P", "i", "n", "g">>,
      <<"A", "c", "t", "i", "o", "n", "=", "S", "e", "n", "d", "&", "D", "e", "l", "a", "y", "=", "x">>,
      <<"A", "c", "t", "i", "o", "n", "=", "S", "e", "n", "d", "&", "F", "i", "f", "o", "=", "T", "r", "u", "e">>,
      <<"A", "c", "t", "i", "o", "n", "=", "S", "e", "n", "d", "&", "F", "i", "f", "o", "=", "1">>,
      <<"A", "c", "t", "i", "o", "n", "=", "S", "e", "n", "d", "&", "&", "U", "r", "l">>,
      <<"A", "c", "t", "i", "o", "n", "=", "S", "e", "n", "d", "&", "U", "r", "l", "=", "a", "&",
        "U", "r", "l", "=", "b">> }

EncodedOps == {i \in 1..Len(QueryOperations) : QueryOperations[i].input_shape.type_name # "none"}

QuerySources ==
    UNION {{[kind |-> "encoded", op |-> QueryOperations[i].name, value |-> v] :
               v \in Values(QueryOperations[i].input_shape)} : i \in EncodedOps}
    \cup {[kind |-> "indexed", op |-> op, indices |-> I, reversed |-> r] :
               op \in IndexedOps, I \in SUBSET (1..MaxIndex), r \in BOOLEAN}
    \cup {[kind |-> "raw", body |-> b] : b \in RawBodies}

BodyOf(source) ==
    IF source.kind = "encoded" THEN Ref_encode(service_operation_model(QueryOperations, source.op), source.value)
    ELSE IF source.kind = "indexed" THEN IndexedBody(source.op, source.indices, source.reversed)
    ELSE source.body

\* ------------------------------------------------------------------------
\* SpecQuery: the Query parser applied to one request
\* ------------------------------------------------------------------------
InitQuery ==
    /\ q_source \in QuerySources
    /\ q_body = BodyOf(q_source)
    /\ q_result = Pending
    /\ SerializerUnused
    /\ SkeletonUnused
    /\ OthersUnused

\* parser.parse(request)
QueryParse ==
    /\ q_result = Pending
    /\ q_result' = QueryRequestParser_parse(q_body)
    /\ UNCHANGED <<q_source, q_body, vars_serializer, vars_skeleton, vars_others>>

NextQuery == QueryParse

SpecQuery == InitQuery /\ [][NextQuery]_vars

\* ------------------------------------------------------------------------
\* Properties of the Query parser (SpecQuery)
\* ------------------------------------------------------------------------
Parsed == q_result.t = "parsed"

\* no empty list, map or structure anywhere in the tree, the root included
RECURSIVE NoEmpty(_)
NoEmpty(x) == IF x.t = "dict" THEN Len(x.v) > 0 /\ \A i \in 1..Len(x.v) : NoEmpty(x.v[i][2])
              ELSE IF x.t = "list" THEN Len(x.v) > 0 /\ \A i \in 1..Len(x.v) : NoEmpty(x.v[i])
              ELSE TRUE

RoundTrips == /\ Parsed
              /\ q_result.v.operation = q_source.op
              /\ PyEq(q_result.v.instance, q_source.value)

\* C4 as stated: every conforming value tree, trees with empty lists, maps and
\* nested structures included, parses back from its reference encoding to the
\* same operation and an equal tree.
C4_RoundTripEveryTree ==
    (q_source.kind = "encoded" /\ q_result.t # "pending") => RoundTrips

\* the parser and the reference encoder write a list's keys alike: a
\* non-flattened list has no member wire name, and a flattened list without a
\* member wire name has no wire name of its own
RECURSIVE ListNamesAgree(_)
ListNamesAgree(shape) ==
    IF shape.type_name = "structure"
    THEN \A j \in 1..Len(shape.members) : ListNamesAgree(shape.members[j][2])
    ELSE IF shape.type_name = "list"
    THEN /\ ListNamesAgree(shape.member)
         /\ (~shape.serialization.flattened => shape.member.serialization.name = <<>>)
         /\ ((shape.serialization.flattened /\ shape.member.serialization.name = <<>>)
                 => shape.serialization.name = <<>>)
    ELSE IF shape.type_name = "map"
    THEN ListNamesAgree(shape.key) /\ ListNamesAgree(shape.value)
    ELSE TRUE

\* no wire name of a list, map or structure member is a prefix of a sibling key
\* (outer: the keys written beside the members, Action and Version at the root)
RECURSIVE PrefixFree(_, _)
PrefixFree(shape, outer) ==
    IF shape.type_name = "structure"
    THEN LET wire(j) == _member_wire_name(shape.members[j][1], shape.members[j][2])
         IN  \A j \in 1..Len(shape.members) :
                 /\ PrefixFree(shape.members[j][2], {})
                 /\ IsComplex(shape.members[j][2]) =>
                        /\ \A k \in 1..Len(shape.members) : k # j => ~StartsWith(wire(k), wire(j))
                        /\ \A o \in outer : ~StartsWith(o, wire(j))
    ELSE IF shape.type_name = "list" THEN PrefixFree(shape.member, {})
    ELSE IF shape.type_name = "map" THEN PrefixFree(shape.key, {}) /\ PrefixFree(shape.value, {})
    ELSE TRUE

RoundTripShape(shape) == ListNamesAgree(shape) /\ PrefixFree(shape, {T_Action, T_Version})

\* what does round-trip: over input shapes whose list keys the parser and the
\* encoder write alike and whose complex members' wire names prefix no sibling
\* key, a conforming value tree with no empty list, map or structure (the root
\* included) parses back to the same operation and an equal tree
RoundTripNoEmpty ==
    (/\ q_source.kind = "encoded" /\ q_result.t # "pending"
     /\ NoEmpty(q_source.value)
     /\ RoundTripShape(service_operation_model(QueryOperations, q_source.op).input_shape)) => RoundTrips

\* the prefix collision of _filter_node: with no Tag list sent, the value of
\* the sibling Tags1 comes back as the list's first element
PrefixCollision ==
    /\ q_source.kind = "encoded" /\ q_source.op = OpTagP.name /\ Parsed
    /\ ~DictHas(q_source.value.v, <<"T", "a", "g">>)
    /\ q_source.value.v # <<>>
    /\ DictHas(q_result.v.instance.v, <<"T", "a", "g">>)

\* the largest n with 1..n all in I
PrefixLen(I) == CHOOSE n \in 0..Cardinality(I) : (1..n) \subseteq I /\ (n + 1) \notin I

ExpectedElement(op, k) ==
    IF op \in {OpTag.name, OpTagF.name} THEN PStr(ElemText(k))
    ELSE PDict(<< <<<<"I", "d">>, PStr(ElemText(k))>> >>)

\* what a request with entries at the indices I must parse to: the entries at
\* 1..PrefixLen(I), in index order, and nothing when index 1 is missing
ExpectedIndexed(op, I) ==
    LET n == PrefixLen(I)
    IN  IF n = 0 THEN None
        ELSE IF op \in {OpAttr.name, OpAttrN.name}
        THEN PDict(<< <<<<"A", "t", "t", "r", "i", "b", "u", "t", "e", "s">>,
                        PDict([k \in 1..n |-> <<KeyText(k), PStr(ElemText(k))>>])>> >>)
        ELSE PDict(<< <<IF op \in {OpTag.name, OpTagF.name} THEN <<"K", "e", "y", "s">>
                        ELSE <<"E", "n", "t", "r", "i", "e", "s">>,
                        PList([k \in 1..n |-> ExpectedElement(op, k)])>> >>)

\* C5: list and map parsing enumerates indices 1, 2, 3, ... and stops at the
\* first missing index; entries beyond the gap never appear in the result.
C5_StopsAtFirstGap ==
    (q_source.kind = "indexed" /\ q_result.t # "pending") =>
        /\ Parsed
        /\ PyEq(q_result.v.instance, ExpectedIndexed(q_source.op, q_source.indices))

\* entries at {1, 2, 4}: a two-element list came out
C5_Witness ==
    /\ q_source.kind = "indexed" /\ q_source.op = OpDel.name /\ q_source.indices = {1, 2, 4}
    /\ Parsed
    /\ Len(q_result.v.instance.v[1][2].v) = 2

\* the non-flattened counterpart of a flattened-list operation
Twin(op) == IF op = OpTagF.name THEN OpTag.name ELSE OpDelN.name

\* C6: a flattened list and the non-flattened list carrying the same elements
\* parse to identical parameters (same member key, elements and order).
C6_FlattenedEquivalent ==
    (q_source.kind \in {"encoded", "indexed"} /\ q_source.op \in {OpTagF.name, OpDel.name}
        /\ q_result.t # "pending") =>
        LET other == QueryRequestParser_parse(BodyOf([q_source EXCEPT !.op = Twin(q_source.op)]))
        IN  /\ Parsed /\ other.t = "parsed"
            /\ PyEq(q_result.v.instance, other.v.instance)

\* the flattened body Key.1=..&Key.2=.. was parsed to a two-element list
C6_Witness ==
    /\ q_source.kind = "encoded" /\ q_source.op = OpTagF.name /\ Parsed
    /\ ~IsNone(q_result.v.instance)
    /\ Len(q_result.v.instance.v[1][2].v) = 2
    /\ StartsWith(DropFirst(q_body, FirstIndex(q_body, "K") - 1), <<"K", "e", "y", ".", "1", "=">>)

\* the keys of the form body as the parser sees them
WireKeys == DictKeys(parse_qs_first(q_body))

\* no key of the body belongs to the member: its wire name is no key, and for
\* a list, map or structure no key continues the wire name with a dot
WireAbsent(member, member_shape) ==
    LET wire == _member_wire_name(member, member_shape)
    IN  IF IsComplex(member_shape)
        THEN \A k \in WireKeys : ~StartsWith(k, wire \o Dot)
        ELSE wire \notin WireKeys

\* the entries of the parsed parameters (None has none)
ParsedEntries == IF IsNone(q_result.v.instance) THEN <<>> ELSE q_result.v.instance.v

ParsedInput == service_operation_model(QueryOperations, q_result.v.operation).input_shape

\* C11: in the parsed structure a member whose wire key is absent from the
\* payload has no entry, a scalar member whose wire key is present has one,
\* and every entry is keyed by a member name of the shape.
C11_AbsentMembersOmitted ==
    Parsed =>
        /\ \A j \in 1..Len(ParsedInput.members) :
              LET member == ParsedInput.members[j][1]
                  member_shape == ParsedInput.members[j][2]
              IN  /\ WireAbsent(member, member_shape) => ~DictHas(ParsedEntries, member)
                  /\ (~IsComplex(member_shape) /\ ~WireAbsent(member, member_shape))
                         => DictHas(ParsedEntries, member)
        /\ \A k \in DictKeys(ParsedEntries) : HasMember(ParsedInput, k)

\* the request of q_source with its indexed keys written in the other order
OtherOrder == [q_source EXCEPT !.reversed = ~q_source.reversed]

ListOps == {OpTag.name, OpTagF.name, OpDel.name, OpDelN.name}

\* C12: a list parses to its elements in ascending wire-index order, element
\* k being the value sent at index k, whatever the order of the indexed keys
\* in the body.
C12_ListInIndexOrder ==
    (q_source.kind = "indexed" /\ q_source.op \in ListOps /\ q_result.t # "pending") =>
        /\ Parsed
        /\ \A k \in 1..Len(ParsedEntries) :
              \A n \in 1..Len(ParsedEntries[k][2].v) :
                  ParsedEntries[k][2].v[n] = ExpectedElement(q_source.op, n)
        /\ q_result = QueryRequestParser_parse(BodyOf(OtherOrder))

\* the keys arrived as 3, 2, 1 and the list came out as 1, 2, 3
C12_Witness ==
    /\ q_source.kind = "indexed" /\ q_source.op = OpTag.name
    /\ q_source.reversed /\ q_source.indices = {1, 2, 3}
    /\ Parsed
    /\ ParsedEntries[1][2].v = <<PStr(ElemText(1)), PStr(ElemText(2)), PStr(ElemText(3))>>
    /\ FirstIndex(q_body, "3") < FirstIndex(q_body, "1")

\* ------------------------------------------------------------------------
\* SpecSerializer: serialize_error_to_response applied to one exception
\* ------------------------------------------------------------------------
\* exception classes handlers raise: two that some operation declares, one
\* that no operation declares
ErrorClasses == {T_Invalid, T_Throttled, T_Gone}

Messages == {<<>>, <<"a", "&", "b">>}

\* the HTTP statuses common exceptions are raised with
StatusCodes == {400, 451, 501}

Errors ==
    {ServiceException(cls, m) : cls \in ErrorClasses, m \in Messages}
    \cup {CommonServiceException(code, m, st, sf) :
             code \in {T_BadValue, T_InternalFailure}, m \in Messages,
             st \in StatusCodes, sf \in BOOLEAN}

RequestIds == {<<"r", "1">>, <<"r", "2">>}

\* service.operation_model(name) of another service with the same operations
OperationOf(service, operation) == [operation EXCEPT !.service_model = service]

SerializerOps == {OpSend, OpTag, OpAttr, OpConf, OpPing}

InitSerializer ==
    /\ s_service \in {Services[i] : i \in 1..Len(Services)}
    /\ s_operation \in {OperationOf(s_service, op) : op \in SerializerOps}
    /\ s_error \in Errors
    /\ s_request_ids \in {<<a, b>> : a \in RequestIds, b \in RequestIds}
    /\ s_result = Pending
    /\ QueryUnused
    /\ SkeletonUnused
    /\ OthersUnused

\* serializer.serialize_error_to_response(error, operation_model)
SerializeError ==
    /\ s_result = Pending
    /\ s_result' = serialize_error_to_response(s_service.protocol, s_error, s_operation, s_request_ids)
    /\ UNCHANGED <<s_service, s_operation, s_error, s_request_ids, vars_query, vars_skeleton, vars_others>>

NextSerializer == SerializeError

SpecSerializer == InitSerializer /\ [][NextSerializer]_vars

\* ------------------------------------------------------------------------
\* Properties of the error path (SpecSerializer)
\* ------------------------------------------------------------------------
Serialized == s_result.t \in {"response", "raise"}

\* the character an escaped text begins with and the length of its escape
FirstUnescaped(text) ==
    IF StartsWith(text, <<"&", "a", "m", "p", ";">>) THEN [char |-> "&", length |-> 5]
    ELSE IF StartsWith(text, <<"&", "l", "t", ";">>) THEN [char |-> "<", length |-> 4]
    ELSE IF StartsWith(text, <<"&", "g", "t", ";">>) THEN [char |-> ">", length |-> 4]
    ELSE [char |-> text[1], length |-> 1]

\* the text a client reads back from an escaped text of the document
RECURSIVE Unescape(_)
Unescape(text) ==
    IF text = <<>> THEN <<>>
    ELSE <<FirstUnescaped(text).char>> \o Unescape(DropFirst(text, FirstUnescaped(text).length))

HasChild(element, tag) == \E i \in 1..Len(element.children) : element.children[i].tag = tag

Child(element, tag) ==
    element.children[CHOOSE i \in 1..Len(element.children) : element.children[i].tag = tag]

\* the Error element of an error document, whichever root the protocol wrote
ErrorElement(root) == IF root.tag = T_Error THEN root ELSE Child(root, T_Error)

\* the error code a client decodes from the response
DecodedCode(response) ==
    IF response.v.body.fmt = "xml"
    THEN Unescape(Child(ErrorElement(response.v.body.doc), T_Code).text)
    ELSE DictGet(response.v.body.doc, "__type")

\* the message a client decodes from the response (empty when there is none)
DecodedMessage(response) ==
    IF response.v.body.fmt = "xml"
    THEN (IF HasChild(ErrorElement(response.v.body.doc), T_Message)
          THEN Unescape(Child(ErrorElement(response.v.body.doc), T_Message).text)
          ELSE <<>>)
    ELSE DictGet(response.v.body.doc, "message")

\* whether the document blames the sender
DecodedSenderFault(response) == HasChild(ErrorElement(response.v.body.doc), T_Fault)

Modeled == s_error # Unused /\ ~s_error.common

Matched == FirstErrorShape(s_operation.error_shapes, s_error.cls) # 0

MatchedShape == s_operation.error_shapes[FirstErrorShape(s_operation.error_shapes, s_error.cls)]

\* C7: a modeled exception whose matching error shape declares no
\* httpStatusCode is serialized with status 400; when the shape declares one,
\* the response carries the declared status.
C7_ModeledStatus ==
    (Serialized /\ Modeled /\ Matched) =>
        /\ IsResponse(s_result)
        /\ MatchedShape.httpStatusCode = 0 => s_result.v.status_code = 400
        /\ MatchedShape.httpStatusCode # 0 => s_result.v.status_code = MatchedShape.httpStatusCode

C7_Witness ==
    /\ Serialized /\ Modeled /\ Matched
    /\ MatchedShape.httpStatusCode = 0
    /\ IsResponse(s_result)
    /\ s_result.v.status_code = 400

\* C8: a CommonServiceException is serialized from its own code, status_code
\* and sender_fault, whatever the operation's error shapes are: the status
\* and the decoded code are the exception's, an XML document blames the
\* sender exactly when sender_fault is set, and the response is the one the
\* same operation without any error shape gets.
C8_CommonUsesOwnFields ==
    (Serialized /\ s_error.common) =>
        /\ IsResponse(s_result)
        /\ s_result.v.status_code = s_error.status_code
        /\ DecodedCode(s_result) = s_error.code
        /\ IsXmlProtocol(s_service.protocol) => (DecodedSenderFault(s_result) <=> s_error.sender_fault)
        /\ s_result = serialize_error_to_response(s_service.protocol, s_error,
                                                  [s_operation EXCEPT !.error_shapes = <<>>],
                                                  s_request_ids)

C8_Witness ==
    /\ Serialized /\ s_error.common
    /\ s_operation.error_shapes = <<>>
    /\ s_error.status_code = 451
    /\ IsResponse(s_result)
    /\ s_result.v.status_code = 451
    /\ DecodedCode(s_result) = T_BadValue

\* C9: a modeled exception whose class name no error shape of the operation
\* carries makes serialize_error_to_response raise; no response is returned.
C9_UnmatchedRaises ==
    (Serialized /\ Modeled /\ ~Matched) => (IsRaise(s_result) /\ s_result.v = "StopIteration")

C9_Witness ==
    /\ Serialized /\ Modeled /\ ~Matched
    /\ s_operation.error_shapes # <<>>
    /\ IsRaise(s_result)

\* ------------------------------------------------------------------------
\* Spec: a Skeleton of the Query service and the requests it is invoked with
\* ------------------------------------------------------------------------
\* the handlers a delegate may carry for an operation: none, or one with
\* either setting of its two flags
HandlerChoices(op) ==
    {<<>>} \cup {<<ServiceRequestHandler(op.name, pass_context, expand_parameters)>> :
                    pass_context \in BOOLEAN, expand_parameters \in BOOLEAN}

\* delegates, their handlers in member order
Delegates ==
    {a \o b \o c : a \in HandlerChoices(OpGet), b \in HandlerChoices(OpSend),
                   c \in {<<>>, <<ServiceRequestHandler(OpTag.name, TRUE, TRUE)>>}}

SkeletonRequests ==
    { <<"A", "c", "t", "i", "o", "n", "=", "S", "e", "n", "d", "&", "U", "r", "l", "=", "x", "&", "D", "e", "l", "a", "y", "=", "1", "2">>,
      <<"A", "c", "t", "i", "o", "n", "=", "G", "e", "t", "&", "Q", "u", "e", "u", "e", "U", "r", "l", "=", "x", "&", "M", "a", "x", "R", "e", "s", "u", "l", "t", "s", "=", "3">>,
      <<"A", "c", "t", "i", "o", "n", "=", "G", "e", "t">>,
      <<"A", "c", "t", "i", "o", "n", "=", "T", "a", "g", "&", "K", "e", "y", "s", ".", "m", "e", "m", "b", "e", "r", ".", "1", "=", "v">>,
      <<"A", "c", "t", "i", "o", "n", "=", "N", "o", "p", "e">>,
      <<"A", "c", "t", "i", "o", "n", "=", "P", "i", "n", "g">> }

\* what handler functions return
HandlerResults ==
    {None, PDict(<<>>),
     PDict(<< <<<<"I", "d">>, PStr(<<"m", "1">>)>>, <<<<"C", "o", "u", "n", "t">>, PInt(2)>> >>)}

\* what handler functions raise
HandlerExceptions ==
    {Raised("ServiceException", e) :
        e \in {ServiceException(T_Invalid, <<"a", "&", "b">>),
               ServiceException(T_Throttled, <<>>),
               ServiceException(T_Gone, <<>>),
               CommonServiceException(T_BadValue, <<"n", "o">>, 451, TRUE)}}
    \cup {Raised(type, Unused) : type \in {"NotImplementedError", "ValueError", "KeyError"}}

RequestIdSeqs == {<<a, b>> : a \in RequestIds, b \in RequestIds}

Some(x) == [t |-> "some", v |-> x]

InvocationCleared ==
    /\ sk_request = Unused
    /\ sk_operation = Unused
    /\ sk_instance = Unused
    /\ sk_call = Unused
    /\ sk_handlers = <<>>
    /\ sk_outcome = Unused
    /\ sk_response = Unused

\* handler = self.dispatch_table[operation.name], taken first of the table
Skeleton_handler_first(self_dispatch_table, operation) == self_dispatch_table[1][2]

\* handler = self.dispatch_table[operation.name]
Skeleton_handler(self_dispatch_table, operation) == DictGet(self_dispatch_table, operation.name)

\* Skeleton(service, delegate)
Init ==
    /\ dispatch_table \in {Skeleton_dispatch_table(delegate, 1, <<>>) : delegate \in Delegates}
    /\ sk_pc = "idle"
    /\ InvocationCleared
    /\ QueryUnused
    /\ SerializerUnused
    /\ OthersUnused

\* skeleton.invoke(context) is entered
Invoke(request) ==
    /\ sk_pc = "idle"
    /\ sk_request' = request
    /\ sk_pc' = "parse"
    /\ UNCHANGED <<vars_query, vars_serializer, vars_others>>
    /\ UNCHANGED <<dispatch_table, sk_operation, sk_instance, sk_call, sk_handlers, sk_outcome, sk_response>>

\* operation, instance = parser.parse(context.request)
Parse ==
    /\ sk_pc = "parse"
    /\ LET parsed == QueryRequestParser_parse(sk_request)
       IN  IF IsRaise(parsed)
           THEN /\ sk_response' = parsed
                /\ sk_pc' = "done"
                /\ UNCHANGED <<sk_operation, sk_instance>>
           ELSE /\ sk_operation' = Some(service_operation_model(QueryOperations, parsed.v.operation))
                /\ sk_instance' = parsed.v.instance
                /\ sk_pc' = "lookup"
                /\ UNCHANGED sk_response
    /\ UNCHANGED <<vars_query, vars_serializer, vars_others>>
    /\ UNCHANGED <<dispatch_table, sk_request, sk_call, sk_handlers, sk_outcome>>

\* if operation.name not in self.dispatch_table: raise NotImplementedError(...)
Lookup ==
    /\ sk_pc = "lookup"
    /\ IF ~DictHas(dispatch_table, sk_operation.v.name)
       THEN /\ sk_response' = Raise("NotImplementedError")
            /\ sk_pc' = "done"
       ELSE /\ sk_pc' = "call"
            /\ UNCHANGED sk_response
    /\ UNCHANGED <<vars_query, vars_serializer, vars_others>>
    /\ UNCHANGED <<dispatch_table, sk_request, sk_operation, sk_instance, sk_call, sk_handlers, sk_outcome>>

\* handler.__call__(self.delegate, context, instance), up to the call of handler.fn
CallHandler ==
    /\ sk_pc = "call"
    /\ LET handler == Skeleton_handler(dispatch_table, sk_operation.v)
       IN  /\ sk_call' = Some(ServiceRequestHandler_call(handler, RequestContext(sk_request),
                                                         sk_instance))
           /\ sk_handlers' = Append(sk_handlers, handler)
    /\ sk_pc' = "handler"
    /\ UNCHANGED <<vars_query, vars_serializer, vars_others>>
    /\ UNCHANGED <<dispatch_table, sk_request, sk_operation, sk_instance, sk_outcome, sk_response>>

\* the handler function returns
HandlerReturns(result) ==
    /\ sk_pc = "handler"
    /\ sk_outcome' = [t |-> "return", v |-> result]
    /\ sk_pc' = "serialize"
    /\ UNCHANGED <<vars_query, vars_serializer, vars_others>>
    /\ UNCHANGED <<dispatch_table, sk_request, sk_operation, sk_instance, sk_call, sk_handlers, sk_response>>

\* the handler function raises
HandlerRaises(exception) ==
    /\ sk_pc = "handler"
    /\ sk_outcome' = [t |-> "raise", v |-> exception]
    /\ sk_pc' = "except"
    /\ UNCHANGED <<vars_query, vars_serializer, vars_others>>
    /\ UNCHANGED <<dispatch_table, sk_request, sk_operation, sk_instance, sk_call, sk_handlers, sk_response>>

\* return serializer.serialize_to_response(result, operation); what the
\* serializer raises is raised inside the try statement
SerializeResult ==
    /\ sk_pc = "serialize"
    /\ \E request_id \in RequestIds :
          LET serialized == Query_serialize_to_response(sk_outcome.v, sk_operation.v, request_id)
          IN  IF IsRaise(serialized) /\ ExceptClause(Raised(serialized.v, Unused)) # "none"
              THEN /\ sk_outcome' = [t |-> "raise", v |-> Raised(serialized.v, Unused)]
                   /\ sk_pc' = "except"
                   /\ UNCHANGED sk_response
              ELSE /\ sk_response' = serialized
                   /\ sk_pc' = "done"
                   /\ UNCHANGED sk_outcome
    /\ UNCHANGED <<vars_query, vars_serializer, vars_others>>
    /\ UNCHANGED <<dispatch_table, sk_request, sk_operation, sk_instance, sk_call, sk_handlers>>

\* except ServiceException as e: return serializer.serialize_error_to_response(e, operation)
OnServiceException ==
    /\ sk_pc = "except"
    /\ ExceptClause(sk_outcome.v) = "ServiceException"
    /\ \E request_ids \in RequestIdSeqs :
          sk_response' = serialize_error_to_response(sk_operation.v.service_model.protocol,
                                                     sk_outcome.v.error, sk_operation.v, request_ids)
    /\ sk_pc' = "done"
    /\ UNCHANGED <<vars_query, vars_serializer, vars_others>>
    /\ UNCHANGED <<dispatch_table, sk_request, sk_operation, sk_instance, sk_call, sk_handlers, sk_outcome>>

\* except NotImplementedError: the 501 InternalFailure response
OnNotImplementedError ==
    /\ sk_pc = "except"
    /\ ExceptClause(sk_outcome.v) = "NotImplementedError"
    /\ \E request_ids \in RequestIdSeqs :
          sk_response' = serialize_error_to_response(sk_operation.v.service_model.protocol,
                                                     NotImplementedException(sk_operation.v),
                                                     sk_operation.v, request_ids)
    /\ sk_pc' = "done"
    /\ UNCHANGED <<vars_query, vars_serializer, vars_others>>
    /\ UNCHANGED <<dispatch_table, sk_request, sk_operation, sk_instance, sk_call, sk_handlers, sk_outcome>>

\* no except clause takes the exception: it leaves invoke
Propagate ==
    /\ sk_pc = "except"
    /\ ExceptClause(sk_outcome.v) = "none"
    /\ sk_response' = Raise(sk_outcome.v.type)
    /\ sk_pc' = "done"
    /\ UNCHANGED <<vars_query, vars_serializer, vars_others>>
    /\ UNCHANGED <<dispatch_table, sk_request, sk_operation, sk_instance, sk_call, sk_handlers, sk_outcome>>

\* invoke is over; the Skeleton waits for the next request
Return ==
    /\ sk_pc = "done"
    /\ sk_pc' = "idle"
    /\ sk_request' = Unused
    /\ sk_operation' = Unused
    /\ sk_instance' = Unused
    /\ sk_call' = Unused
    /\ sk_handlers' = <<>>
    /\ sk_outcome' = Unused
    /\ sk_response' = Unused
    /\ UNCHANGED <<dispatch_table, vars_query, vars_serializer, vars_others>>

Next ==
    \/ \E request \in SkeletonRequests : Invoke(request)
    \/ Parse
    \/ Lookup
    \/ CallHandler
    \/ \E result \in HandlerResults : HandlerReturns(result)
    \/ \E exception \in HandlerExceptions : HandlerRaises(exception)
    \/ SerializeResult
    \/ OnServiceException
    \/ OnNotImplementedError
    \/ Propagate
    \/ Return

Spec == Init /\ [][Next]_vars

\* ------------------------------------------------------------------------
\* Properties of the Skeleton (Spec)
\* ------------------------------------------------------------------------
\* invoke is over: sk_response is what it returned or raised
Done == sk_pc = "done"

\* the parser named an operation the dispatch table has no entry for
DispatchGap == sk_operation.t = "some" /\ ~DictHas(dispatch_table, sk_operation.v.name)

\* sub in s
Contains(s, sub) ==
    \E i \in 0..(Len(s) - Len(sub)) : SubSeq(s, i + 1, i + Len(sub)) = sub

HandlerRaised == sk_outcome.t = "raise"

\* C1: an invocation whose parsed operation has no entry in the dispatch
\* table returns a serialized error response: status 501, code
\* InternalFailure, a message containing the operation name and the service
\* name.
C1_DispatchGapAnswered ==
    (Done /\ DispatchGap) =>
        /\ IsResponse(sk_response)
        /\ sk_response.v.status_code = 501
        /\ DecodedCode(sk_response) = T_InternalFailure
        /\ Contains(DecodedMessage(sk_response), sk_operation.v.name)
        /\ Contains(DecodedMessage(sk_response), sk_operation.v.service_model.service_name)

C3_EveryOtherFailurePropagates ==
    (Done /\ HandlerRaised /\ sk_outcome.v.type # "ServiceException") =>
        (IsRaise(sk_response) /\ sk_response.v = sk_outcome.v.type)

\* C3: a failure of a handler that is neither a ServiceException nor a
\* NotImplementedError leaves invoke unhandled: invoke raises it and returns
\* no response.
C3_OtherFailuresPropagate ==
    (Done /\ HandlerRaised /\ sk_outcome.v.type \notin {"ServiceException", "NotImplementedError"}) =>
        (IsRaise(sk_response) /\ sk_response.v = sk_outcome.v.type)

C3_Witness ==
    /\ Done /\ HandlerRaised
    /\ sk_outcome.v.type = "ValueError"
    /\ IsRaise(sk_response)
    /\ sk_response.v = "ValueError"

\* the handler the dispatch table holds for the parsed operation
CalledHandler == DictGet(dispatch_table, sk_operation.v.name)

\* one snake-cased keyword argument per parsed member
NamedMembers ==
    IF IsNone(sk_instance) THEN {}
    ELSE {<<xform_name(sk_instance.v[i][1]), sk_instance.v[i][2]>> : i \in 1..Len(sk_instance.v)}

\* C10: the handler function is handed the context exactly when pass_context
\* is set: expanded, the parsed members as snake-cased keyword arguments
\* plus a "context" keyword only when pass_context is set; not expanded,
\* (context, params) positionally when pass_context is set and (params)
\* alone otherwise.
C10_ContextIffPassContext ==
    (sk_call.t = "some") =>
        IF CalledHandler.expand_parameters
        THEN /\ sk_call.v.args = <<>>
             /\ DictHas(sk_call.v.kwargs, T_context) <=> CalledHandler.pass_context
             /\ NamedMembers
                    \subseteq {sk_call.v.kwargs[i] : i \in 1..Len(sk_call.v.kwargs)}
        ELSE /\ sk_call.v.kwargs = <<>>
             /\ sk_call.v.args = IF CalledHandler.pass_context
                                 THEN <<RequestContext(sk_request), sk_instance>>
                                 ELSE <<sk_instance>>

\* ------------------------------------------------------------------------
\* Request bodies of the XML and JSON protocols
\* ------------------------------------------------------------------------
\* a request: the HttpRequest dict; headers an ordered dict of texts; the body
\* empty, an XML document (the tree of its escaped texts), a JSON document (the
\* value it denotes) or a text that is neither
HttpRequest(method, path, headers, body) ==
    [method |-> method, path |-> path, headers |-> headers, body |-> body]

TextBody(text) == [fmt |-> "text", doc |-> text]

\* the element tree an XML parser builds from a written document
RECURSIVE fromstring(_)
fromstring(doc) ==
    [tag |-> doc.tag,
     attrib |-> [i \in 1..Len(doc.attrib) |-> <<doc.attrib[i][1], Unescape(doc.attrib[i][2])>>],
     text |-> Unescape(doc.text),
     children |-> [i \in 1..Len(doc.children) |-> fromstring(doc.children[i])]]

ElementNode(element) == [t |-> "element", v |-> element]

\* RestXMLRequestParser._initial_body_parse and _parse_xml_string_to_dom: an
\* empty body gives an element without children, a body that is no XML
\* document raises Exception
RestXML_initial_body_parse(body) ==
    IF body.fmt = "empty" THEN ElementNode(Element(<<>>, <<>>, <<>>, <<>>))
    ELSE IF body.fmt = "xml" THEN ElementNode(fromstring(body.doc))
    ELSE Raise("Exception")

\* BaseJSONRequestParser._parse_body_as_json: an empty body gives {}, a body
\* json.loads rejects gives {"message": body}
_parse_body_as_json(body) ==
    IF body.fmt = "empty" THEN PDict(<<>>)
    ELSE IF body.fmt = "json" THEN body.doc
    ELSE PDict(<< <<<<"m", "e", "s", "s", "a", "g", "e">>, PStr(body.doc)>> >>)

\* ------------------------------------------------------------------------
\* RestXMLRequestParser: the walk of a shape over an element tree
\* ------------------------------------------------------------------------
\* a node is an element, a list of elements (repeated tags aggregated by
\* _build_name_to_xml_node) or a text (a header value)
RECURSIVE RestXML_parse_shape(_, _)
RECURSIVE RestXML_parse_structure_from(_, _, _, _)
RECURSIVE RestXML_parse_list_from(_, _, _, _)
RECURSIVE _build_name_to_xml_node_from(_, _, _)

\* the for loop of _build_name_to_xml_node over the children of an element
_build_name_to_xml_node_from(children, i, xml_dict) ==
    IF i > Len(children) THEN xml_dict
    ELSE LET key == children[i].tag
         IN  _build_name_to_xml_node_from(children, i + 1,
                 IF DictHas(xml_dict, key)
                 THEN (IF DictGet(xml_dict, key).t = "list"
                       THEN DictSet(xml_dict, key, PList(Append(DictGet(xml_dict, key).v, children[i])))
                       ELSE DictSet(xml_dict, key, PList(<<DictGet(xml_dict, key).v, children[i]>>)))
                 ELSE DictSet(xml_dict, key, ElementNode(children[i])))

\* of a list, the dict of its first element
_build_name_to_xml_node(parent_node) ==
    _build_name_to_xml_node_from(
        IF parent_node.t = "list" THEN parent_node.v[1].children ELSE parent_node.v.children,
        1, <<>>)

\* RestXMLRequestParser._member_key_name
_member_key_name(shape, member_name) ==
    IF shape.type_name = "list" /\ shape.serialization.flattened /\ shape.member.serialization.name # <<>>
    THEN shape.member.serialization.name
    ELSE IF shape.serialization.name # <<>> THEN shape.serialization.name
    ELSE member_name

\* the for loop of RestXMLRequestParser._parse_structure: members with a
\* location are left to _parse_non_payload_attrs
RestXML_parse_structure_from(shape, xml_dict, j, parsed) ==
    IF j > Len(shape.members) THEN PDict(parsed)
    ELSE LET member_name == shape.members[j][1]
             member_shape == shape.members[j][2]
             xml_name == _member_key_name(member_shape, member_name)
         IN  IF member_shape.serialization.location # ""
             THEN RestXML_parse_structure_from(shape, xml_dict, j + 1, parsed)
             ELSE IF DictHas(xml_dict, xml_name)
             THEN LET value == RestXML_parse_shape(member_shape, DictGet(xml_dict, xml_name))
                  IN  IF IsRaise(value) THEN value
                      ELSE RestXML_parse_structure_from(shape, xml_dict, j + 1,
                                                        DictSet(parsed, member_name, value))
             ELSE RestXML_parse_structure_from(shape, xml_dict, j + 1, parsed)

\* RequestParser._parse_list over the items of the node
RestXML_parse_list_from(shape, items, i, parsed) ==
    IF i > Len(items) THEN PList(parsed)
    ELSE LET value == RestXML_parse_shape(shape.member, ElementNode(items[i]))
         IN  IF IsRaise(value) THEN value
             ELSE RestXML_parse_list_from(shape, items, i + 1, Append(parsed, value))

\* _text_content: the text of an element, any other node as it is
_get_text_content(node) == IF node.t = "element" THEN PStr(node.v.text) ELSE node

\* RequestParser._parse_shape as the rest-xml parser resolves it: the location
\* switch, then _parse_structure, _parse_list (a flattened list that is no
\* list becomes a one-element list; iterating an element gives its children)
\* and the scalar parsers behind _text_content
RestXML_parse_shape(shape, node) ==
    IF shape.serialization.location \in {"header", "headers", "querystring", "uri"}
    THEN Raise("NotImplementedError")
    ELSE IF shape.serialization.location # ""
    THEN Raise("UnboundLocalError")
    ELSE IF shape.type_name = "structure"
    THEN RestXML_parse_structure_from(shape, _build_name_to_xml_node(node), 1, <<>>)
    ELSE IF shape.type_name = "list"
    THEN RestXML_parse_list_from(shape,
             IF node.t = "list" THEN node.v
             ELSE IF shape.serialization.flattened THEN <<node.v>>
             ELSE node.v.children,
             1, <<>>)
    ELSE LET text == _get_text_content(node)
         IN  IF shape.type_name \in {"integer", "long"}
             THEN (IF text.t = "str" THEN _parse_integer(text.v) ELSE Raise("TypeError"))
             ELSE IF shape.type_name = "boolean"
             THEN (IF text.t = "str" THEN _parse_boolean(text.v) ELSE Raise("AttributeError"))
             ELSE text

\* ------------------------------------------------------------------------
\* BaseJSONRequestParser: the walk of a shape over a JSON value
\* ------------------------------------------------------------------------
RECURSIVE JSON_parse_shape(_, _)
RECURSIVE JSON_parse_structure_from(_, _, _, _)
RECURSIVE JSON_parse_list_from(_, _, _, _)
RECURSIVE JSON_parse_map_from(_, _, _, _)

\* the for loop of BaseJSONRequestParser._parse_structure: value.get(json_name),
\* and only a value that is not None is parsed
\* a structure parser that hands the wire object on as it came
JSON_parse_structure_unfiltered(shape, value, j, final_parsed) == PDict(value)

JSON_parse_structure_from(shape, value, j, final_parsed) ==
    IF j > Len(shape.members) THEN PDict(final_parsed)
    ELSE LET member_name == shape.members[j][1]
             member_shape == shape.members[j][2]
             json_name == _get_serialized_name(member_shape, member_name)
             raw_value == IF DictHas(value, json_name) THEN DictGet(value, json_name) ELSE None
         IN  IF IsNone(raw_value)
             THEN JSON_parse_structure_from(shape, value, j + 1, final_parsed)
             ELSE LET parsed == JSON_parse_shape(member_shape, raw_value)
                  IN  IF IsRaise(parsed) THEN parsed
                      ELSE JSON_parse_structure_from(shape, value, j + 1,
                                                     DictSet(final_parsed, member_name, parsed))

\* RequestParser._parse_list over the items of the node
JSON_parse_list_from(shape, items, i, parsed) ==
    IF i > Len(items) THEN PList(parsed)
    ELSE LET value == JSON_parse_shape(shape.member, items[i])
         IN  IF IsRaise(value) THEN value
             ELSE JSON_parse_list_from(shape, items, i + 1, Append(parsed, value))

\* for item in node: the items of a list, the characters of a text, the keys of a dict
\* the for loop of BaseJSONRequestParser._parse_map
JSON_parse_map_from(shape, items, i, parsed) ==
    IF i > Len(items) THEN PDict(parsed)
    ELSE LET actual_key == JSON_parse_shape(shape.key, PStr(items[i][1]))
             actual_value == JSON_parse_shape(shape.value, items[i][2])
         IN  IF IsRaise(actual_key) THEN actual_key
             ELSE IF IsRaise(actual_value) THEN actual_value
             ELSE JSON_parse_map_from(shape, items, i + 1,
                                      DictSet(parsed, actual_key.v, actual_value))

IterItems(node) ==
    IF node.t = "list" THEN node.v
    ELSE IF node.t = "str" THEN [i \in 1..Len(node.v) |-> PStr(<<node.v[i]>>)]
    ELSE [i \in 1..Len(node.v) |-> PStr(node.v[i][1])]

\* int(node) of a JSON value
JSON_parse_integer(node) ==
    IF node.t = "int" THEN node
    ELSE IF node.t = "bool" THEN PInt(IF node.v THEN 1 ELSE 0)
    ELSE IF node.t = "str" THEN _parse_integer(node.v)
    ELSE Raise("TypeError")

\* RequestParser._parse_shape as the JSON parsers resolve it: the location
\* switch, then _parse_structure (None stays None, a value without .get raises),
\* _parse_list, int() and the no-op parser, which _parse_boolean is too
JSON_parse_shape(shape, node) ==
    IF shape.serialization.location \in {"header", "headers", "querystring", "uri"}
    THEN Raise("NotImplementedError")
    ELSE IF shape.serialization.location # ""
    THEN Raise("UnboundLocalError")
    ELSE IF shape.type_name = "structure"
    THEN (IF shape.is_document_type THEN node
          ELSE IF IsNone(node) THEN None
          ELSE IF node.t # "dict" THEN Raise("AttributeError")
          ELSE JSON_parse_structure_from(shape, node.v, 1, <<>>))
    ELSE IF shape.type_name = "list"
    THEN (IF node.t \in {"list", "str", "dict"} THEN JSON_parse_list_from(shape, IterItems(node), 1, <<>>)
          ELSE Raise("TypeError"))
    ELSE IF shape.type_name = "map"
    THEN (IF node.t # "dict" THEN Raise("AttributeError")
          ELSE JSON_parse_map_from(shape, node.v, 1, <<>>))
    ELSE IF shape.type_name \in {"integer", "long"} THEN JSON_parse_integer(node)
    ELSE node

\* ------------------------------------------------------------------------
\* BaseRestRequestParser
\* ------------------------------------------------------------------------
\* an operation of a REST service: operation.http is an ordered dict
RestOperation(name, http, input_shape) == [name |-> name, http |-> http, input_shape |-> input_shape]

Http(method, requestUri) == << <<"method", method>>, <<"requestUri", requestUri>> >>

T_GET == <<"G", "E", "T">>

T_POST == <<"P", "O", "S", "T">>

T_PATCH == <<"P", "A", "T", "C", "H">>

T_DELETE == <<"D", "E", "L", "E", "T", "E">>

T_Name == <<"N", "a", "m", "e">>

T_Size == <<"S", "i", "z", "e">>

T_Token == <<"T", "o", "k", "e", "n">>

T_Max == <<"M", "a", "x">>

T_Meta == <<"M", "e", "t", "a">>

T_x_token == <<"x", "-", "t", "o", "k", "e", "n">>

T_x_max == <<"x", "-", "m", "a", "x">>

T_x_meta_ == <<"X", "-", "M", "e", "t", "a", "-">>

P_root == <<"/">>

P_items == <<"/", "i", "t", "e", "m", "s">>

P_meta == <<"/", "m", "e", "t", "a">>

P_nope == <<"/", "n", "o", "p", "e">>

\* GET /items: two members bound to headers next to a member of the body
OpList == RestOperation(<<"L", "i", "s", "t">>, Http(T_GET, P_items),
    StructureShape(<< <<T_Token, Scalar("string", Ser(T_x_token, FALSE, "header"))>>,
                      <<T_Max, Scalar("integer", Ser(T_x_max, FALSE, "header"))>>,
                      <<T_Name, StringShape>> >>, NoSer))

\* POST /items: every member in the body
OpPut == RestOperation(<<"P", "u", "t">>, Http(T_POST, P_items),
    StructureShape(<< <<T_Name, StringShape>>,
                      <<T_Size, Scalar("integer", NoSer)>>,
                      <<<<"T", "a", "g", "s">>, ListShape(StringShape, NoSer)>> >>, NoSer))

\* POST /meta: a member collecting the headers with a prefix
OpMeta == RestOperation(<<"M", "e", "t", "a">>, Http(T_POST, P_meta),
    StructureShape(<< <<T_Meta, MapShape(StringShape, StringShape, Ser(T_x_meta_, FALSE, "headers"))>>,
                      <<T_Name, StringShape>> >>, NoSer))

\* GET /: no input
OpStat == RestOperation(<<"S", "t", "a", "t">>, Http(T_GET, P_root), NoShape)

\* an operation without HTTP binding
OpBare == RestOperation(<<"B", "a", "r", "e">>, <<>>, NoShape)

\* service.operation_names, resolved
RestOperations == <<OpList, OpPut, OpMeta, OpStat, OpBare>>

\* BaseRestRequestParser.__init__: the loop that fills operation_lookup, a
\* dict of dicts; every modelled http dict that is not empty has both keys
RECURSIVE BaseRest_init_from(_, _, _)
BaseRest_init_from(operations, i, lookup) ==
    IF i > Len(operations) THEN lookup
    ELSE IF Len(operations[i].http) > 0
    THEN LET method == DictGet(operations[i].http, "method")
             request_uri == DictGet(operations[i].http, "requestUri")
             inner == IF DictHas(lookup, method) THEN DictGet(lookup, method) ELSE <<>>
         IN  BaseRest_init_from(operations, i + 1,
                                DictSet(lookup, method, DictSet(inner, request_uri, operations[i])))
    ELSE BaseRest_init_from(operations, i + 1, lookup)

BaseRest_init(operations) == BaseRest_init_from(operations, 1, <<>>)

\* self.operation_lookup[method][path] on defaultdict(lambda: defaultdict(OperationModel)):
\* a missing method is inserted with an empty inner dict before the inner
\* lookup; a missing path calls OperationModel() without arguments, a TypeError
operation_lookup_getitem(lookup, method, path) ==
    LET table == IF DictHas(lookup, method) THEN lookup ELSE Append(lookup, <<method, <<>> >>)
        inner == DictGet(table, method)
    IN  [operation_lookup |-> table,
         operation |-> IF DictHas(inner, path) THEN Some(DictGet(inner, path)) ELSE Raise("TypeError")]

\* the _parse_shape of the protocol's parser class
Rest_parse_shape(protocol, shape, node) ==
    IF protocol = "rest-xml" THEN RestXML_parse_shape(shape, node) ELSE JSON_parse_shape(shape, node)

\* BaseRestRequestParser._parse_header_map
RECURSIVE _parse_header_map_from(_, _, _, _)
_parse_header_map_from(prefix, headers, i, parsed) ==
    IF i > Len(headers) THEN parsed
    ELSE _parse_header_map_from(prefix, headers, i + 1,
             IF StartsWith(Lower(headers[i][1]), prefix)
             THEN DictSet(parsed, DropFirst(headers[i][1], Len(prefix)), PStr(headers[i][2]))
             ELSE parsed)

_parse_header_map(shape, headers) ==
    PDict(_parse_header_map_from(Lower(shape.serialization.name), headers, 1, <<>>))

\* the for loop of BaseRestRequestParser._parse_non_payload_attrs; a request
\* has no "status_code" entry
RECURSIVE _parse_non_payload_attrs_from(_, _, _, _, _)
_parse_non_payload_attrs_from(protocol, request, member_shapes, j, final_parsed) ==
    IF j > Len(member_shapes) THEN PDict(final_parsed)
    ELSE LET name == member_shapes[j][1]
             member_shape == member_shapes[j][2]
             location == member_shape.serialization.location
             header_name == _get_serialized_name(member_shape, name)
             value == IF location = "statusCode" THEN Raise("KeyError")
                      ELSE IF location = "headers" THEN _parse_header_map(member_shape, request.headers)
                      ELSE IF location = "header" /\ DictHas(request.headers, header_name)
                      THEN Rest_parse_shape(protocol, member_shape,
                                            PStr(DictGet(request.headers, header_name)))
                      ELSE None
         IN  IF IsRaise(value) THEN value
             ELSE _parse_non_payload_attrs_from(protocol, request, member_shapes, j + 1,
                      IF IsNone(value) THEN final_parsed ELSE DictSet(final_parsed, name, value))

\* final_parsed.update(body_parsed)
RECURSIVE DictUpdate(_, _)
DictUpdate(d, other) ==
    IF other = <<>> THEN d ELSE DictUpdate(DictSet(d, other[1][1], other[1][2]), Tail(other))

\* BaseRestRequestParser._parse_payload; no modelled input shape names a
\* payload member, so the whole body is parsed against the input shape
_parse_payload(protocol, request, shape, final_parsed) ==
    LET original_parsed == IF protocol = "rest-xml" THEN RestXML_initial_body_parse(request.body)
                           ELSE _parse_body_as_json(request.body)
    IN  IF IsRaise(original_parsed) THEN original_parsed
        ELSE LET body_parsed == Rest_parse_shape(protocol, shape, original_parsed)
             IN  IF IsRaise(body_parsed) THEN body_parsed
                 ELSE IF body_parsed.t # "dict" THEN Raise("TypeError")
                 ELSE PDict(DictUpdate(final_parsed, body_parsed.v))

\* BaseRestRequestParser._add_modeled_parse
_add_modeled_parse(protocol, request, shape) ==
    IF shape.type_name = "none" THEN PDict(<<>>)
    ELSE LET final_parsed == _parse_non_payload_attrs_from(protocol, request, shape.members, 1, <<>>)
         IN  IF IsRaise(final_parsed) THEN final_parsed
             ELSE _parse_payload(protocol, request, shape, final_parsed.v)

\* BaseRestRequestParser.parse: the table after the lookup and what parse
\* returns or raises
BaseRest_parse(protocol, lookup, request) ==
    LET found == operation_lookup_getitem(lookup, request.method, request.path)
    IN  [operation_lookup |-> found.operation_lookup,
         result |-> IF IsRaise(found.operation) THEN found.operation
                    ELSE LET final_parsed == _add_modeled_parse(protocol, request,
                                                                found.operation.v.input_shape)
                         IN  IF IsRaise(final_parsed) THEN final_parsed
                             ELSE [t |-> "parsed",
                                   v |-> [operation |-> found.operation.v.name,
                                          instance |-> final_parsed]]]

\* ------------------------------------------------------------------------
\* SpecRest: a REST parser and the requests handed to its parse()
\* ------------------------------------------------------------------------
RestProtocols == {"rest-xml", "rest-json"}

RestHeaders ==
    { <<>>,
      << <<T_x_token, <<"t", "1">> >> >>,
      << <<T_x_max, <<"5">> >> >>,
      << <<<<"X", "-", "M", "e", "t", "a", "-", "a">>, <<"1">> >>, <<T_x_token, <<"t", "1">> >> >> }

\* bodies: none, XML and JSON documents of Put and List parameters (one with
\* a Size int() rejects, one null), and a text that is no document
RestBodies ==
    { EmptyBody,
      XmlBody(Element(<<"P", "u", "t">>, <<>>, <<>>,
                      <<Element(T_Name, <<>>, <<"a", "&", "b">>, <<>>),
                        Element(T_Size, <<>>, <<"1", "2">>, <<>>)>>)),
      XmlBody(Element(<<"P", "u", "t">>, <<>>, <<>>,
                      <<Element(T_Size, <<>>, <<"x">>, <<>>)>>)),
      JsonBody(PDict(<< <<T_Name, PStr(<<"a", "&", "b">>)>>, <<T_Size, PInt(12)>> >>)),
      JsonBody(None),
      TextBody(<<"{">>) }

RestRequests ==
    {HttpRequest(method, path, headers, body) :
        method \in {T_GET, T_POST, T_PATCH, T_DELETE},
        path \in {P_root, P_items, P_meta, P_nope},
        headers \in RestHeaders,
        body \in RestBodies}

\* create_parser(service) for a REST service
InitRest ==
    /\ r_protocol \in RestProtocols
    /\ operation_lookup = BaseRest_init(RestOperations)
    /\ r_request = Unused
    /\ r_result = Unused
    /\ QueryUnused
    /\ SerializerUnused
    /\ SkeletonUnused
    /\ ThreadsUnused
    /\ BodyUnused
    /\ ResponseUnused
    /\ CodecUnused
    /\ SqsUnused

\* parser.parse(request)
RestParse(request) ==
    /\ LET out == BaseRest_parse(r_protocol, operation_lookup, request)
       IN  /\ operation_lookup' = out.operation_lookup
           /\ r_result' = out.result
    /\ r_request' = request
    /\ UNCHANGED <<r_protocol, vars_query, vars_serializer, vars_skeleton>>
    /\ UNCHANGED <<vars_threads, vars_body, vars_response, vars_codec, vars_sqs>>

NextRest == \E request \in RestRequests : RestParse(request)

SpecRest == InitRest /\ [][NextRest]_vars

\* ------------------------------------------------------------------------
\* Properties of the REST parsers (SpecRest)
\* ------------------------------------------------------------------------
\* dict == dict on the two levels of the table
SameTable(a, b) ==
    /\ DictKeys(a) = DictKeys(b)
    /\ \A method \in DictKeys(a) : DictAsFcn(DictGet(a, method)) = DictAsFcn(DictGet(b, method))

\* C13: after any sequence of parse calls, requests with an unknown method or
\* path included, the (method, URI) -> operation table equals the table built
\* at construction.
C13_LookupTableFixed ==
    r_protocol \in RestProtocols => SameTable(operation_lookup, BaseRest_init(RestOperations))

\* a request with a method no operation declares left an entry behind
C13_TableGrew ==
    /\ r_protocol \in RestProtocols
    /\ r_request # Unused /\ r_request.method = T_PATCH
    /\ IsRaise(r_result) /\ r_result.v = "TypeError"
    /\ DictHas(operation_lookup, T_PATCH)
    /\ ~DictHas(BaseRest_init(RestOperations), T_PATCH)

\* the operation the constructed table holds for the last request
Routed ==
    /\ r_request # Unused
    /\ DictHas(BaseRest_init(RestOperations), r_request.method)
    /\ DictHas(DictGet(BaseRest_init(RestOperations), r_request.method), r_request.path)

RoutedOperation == DictGet(DictGet(BaseRest_init(RestOperations), r_request.method), r_request.path)

\* the members of the routed operation bound to a header the request carries
SentHeaderMembers ==
    IF RoutedOperation.input_shape.type_name = "none" THEN {}
    ELSE {j \in 1..Len(RoutedOperation.input_shape.members) :
             LET member_shape == RoutedOperation.input_shape.members[j][2]
             IN  /\ member_shape.serialization.location = "header"
                 /\ DictHas(r_request.headers,
                            _get_serialized_name(member_shape, RoutedOperation.input_shape.members[j][1]))}

\* a header text parsed by the shape's type
HeaderValue(member_shape, text) ==
    IF member_shape.type_name \in {"integer", "long"} THEN _parse_integer(text)
    ELSE IF member_shape.type_name = "boolean" THEN _parse_boolean(text)
    ELSE PStr(text)

\* C15: for a request without body to a REST operation, every member bound to
\* a header the request carries is in the parsed parameters under its member
\* name, its value the header's text parsed by the member's type; parse does
\* not fail.
C15_HeaderMemberExtracted ==
    (Routed /\ r_request.body = EmptyBody /\ SentHeaderMembers # {}) =>
        /\ r_result.t = "parsed"
        /\ \A j \in SentHeaderMembers :
              LET member == RoutedOperation.input_shape.members[j][1]
                  member_shape == RoutedOperation.input_shape.members[j][2]
              IN  /\ DictHas(r_result.v.instance.v, member)
                  /\ DictGet(r_result.v.instance.v, member)
                        = HeaderValue(member_shape,
                                      DictGet(r_request.headers,
                                              _get_serialized_name(member_shape, member)))

\* GET /items with the header x-token: parse raised instead
C15_HeaderRaises ==
    /\ Routed /\ RoutedOperation.name = OpList.name
    /\ DictHas(r_request.headers, T_x_token)
    /\ IsRaise(r_result) /\ r_result.v = "NotImplementedError"

\* what the REST parsers do deliver: body members, and the prefix-header map
RestBodyParsed ==
    /\ Routed /\ RoutedOperation.name = OpPut.name /\ r_result.t = "parsed"
    /\ DictHas(r_result.v.instance.v, T_Size)
    /\ DictGet(r_result.v.instance.v, T_Size) = PInt(12)
    /\ DictGet(r_result.v.instance.v, T_Name) = PStr(<<"a", "&", "b">>)

RestHeaderMapParsed ==
    /\ Routed /\ RoutedOperation.name = OpMeta.name /\ r_result.t = "parsed"
    /\ DictGet(r_result.v.instance.v, T_Meta) = PDict(<< <<<<"a">>, PStr(<<"1">>)>> >>)

\* ------------------------------------------------------------------------
\* SpecThreads: concurrent invoke calls on one Skeleton
\* ------------------------------------------------------------------------
\* the number of threads calling invoke
NumThreads == 2

Threads == 1..NumThreads

\* key not in table: membership of a dict; the table is left as it is
dict_contains_setdefault(table, key) ==
    [table |-> IF DictHas(table, key) THEN table ELSE Append(table, <<key, None>>),
     found |-> DictHas(table, key)]

\* operation.name not in self.dispatch_table, on a plain dict
dict_contains(table, key) == [table |-> table, found |-> DictHas(table, key)]

\* self.dispatch_table[operation.name], on a plain dict: a KeyError on a miss
dict_getitem(table, key) ==
    [table |-> table,
     value |-> IF DictHas(table, key) THEN Some(DictGet(table, key)) ELSE Raise("KeyError")]

\* a thread outside invoke
Idle == [pc |-> "idle", request |-> Unused, operation |-> Unused, instance |-> Unused,
         handler |-> Unused, outcome |-> Unused, response |-> Unused]

ThreadDelegates ==
    { <<>>,
      <<ServiceRequestHandler(OpSend.name, TRUE, TRUE)>>,
      <<ServiceRequestHandler(OpGet.name, FALSE, FALSE), ServiceRequestHandler(OpSend.name, TRUE, TRUE)>> }

ThreadRequests ==
    { <<"A", "c", "t", "i", "o", "n", "=", "S", "e", "n", "d", "&", "U", "r", "l", "=", "x">>,
      <<"A", "c", "t", "i", "o", "n", "=", "G", "e", "t">>,
      <<"A", "c", "t", "i", "o", "n", "=", "N", "o", "p", "e">> }

ThreadResults == {PDict(<< <<<<"I", "d">>, PStr(<<"m", "1">>)>> >>)}

ThreadExceptions ==
    {Raised("ServiceException", ServiceException(T_Invalid, <<>>)),
     Raised("NotImplementedError", Unused),
     Raised("KeyError", Unused)}

\* the request identifiers the serializers draw in this specification
ThreadRequestIds == <<<<"r", "1">>, <<"r", "2">>>>

\* Skeleton(service, delegate), and no thread inside invoke
InitThreads ==
    /\ dispatch_table \in {Skeleton_dispatch_table(delegate, 1, <<>>) : delegate \in ThreadDelegates}
    /\ invocations = [t \in Threads |-> Idle]
    /\ sk_pc = "unused"
    /\ InvocationCleared
    /\ QueryUnused
    /\ SerializerUnused
    /\ RestUnused
    /\ BodyUnused
    /\ ResponseUnused
    /\ CodecUnused
    /\ SqsUnused

ThreadFrame ==
    UNCHANGED <<sk_pc, vars_invocation, vars_query, vars_serializer, vars_rest, vars_body, vars_response, vars_codec, vars_sqs>>

\* thread t enters skeleton.invoke(context)
T_Invoke(t, request) ==
    /\ invocations[t].pc = "idle"
    /\ invocations' = [invocations EXCEPT ![t] = [Idle EXCEPT !.pc = "parse", !.request = request]]
    /\ UNCHANGED dispatch_table
    /\ ThreadFrame

\* operation, instance = parser.parse(context.request)
T_Parse(t) ==
    /\ invocations[t].pc = "parse"
    /\ LET parsed == QueryRequestParser_parse(invocations[t].request)
       IN  invocations' = [invocations EXCEPT ![t] =
               IF IsRaise(parsed)
               THEN [@ EXCEPT !.pc = "done", !.response = parsed]
               ELSE [@ EXCEPT !.pc = "lookup",
                              !.operation = Some(service_operation_model(QueryOperations,
                                                                         parsed.v.operation)),
                              !.instance = parsed.v.instance]]
    /\ UNCHANGED dispatch_table
    /\ ThreadFrame

\* if operation.name not in self.dispatch_table: raise NotImplementedError(...)
T_Lookup(t) ==
    /\ invocations[t].pc = "lookup"
    /\ LET looked == dict_contains(dispatch_table, invocations[t].operation.v.name)
       IN  /\ dispatch_table' = looked.table
           /\ invocations' = [invocations EXCEPT ![t] =
                  IF looked.found THEN [@ EXCEPT !.pc = "fetch"]
                  ELSE [@ EXCEPT !.pc = "done", !.response = Raise("NotImplementedError")]]
    /\ ThreadFrame

\* handler = self.dispatch_table[operation.name]
T_Fetch(t) ==
    /\ invocations[t].pc = "fetch"
    /\ LET got == dict_getitem(dispatch_table, invocations[t].operation.v.name)
       IN  /\ dispatch_table' = got.table
           /\ invocations' = [invocations EXCEPT ![t] =
                  IF IsRaise(got.value) THEN [@ EXCEPT !.pc = "done", !.response = got.value]
                  ELSE [@ EXCEPT !.pc = "handler", !.handler = got.value]]
    /\ ThreadFrame

\* handler.__call__(self.delegate, context, instance) returns
T_HandlerReturns(t, result) ==
    /\ invocations[t].pc = "handler"
    /\ invocations' = [invocations EXCEPT ![t] =
           [@ EXCEPT !.pc = "serialize", !.outcome = [t |-> "return", v |-> result]]]
    /\ UNCHANGED dispatch_table
    /\ ThreadFrame

\* handler.__call__(self.delegate, context, instance) raises
T_HandlerRaises(t, exception) ==
    /\ invocations[t].pc = "handler"
    /\ invocations' = [invocations EXCEPT ![t] =
           [@ EXCEPT !.pc = "except", !.outcome = [t |-> "raise", v |-> exception]]]
    /\ UNCHANGED dispatch_table
    /\ ThreadFrame

\* return serializer.serialize_to_response(result, operation)
T_Serialize(t) ==
    /\ invocations[t].pc = "serialize"
    /\ LET serialized == Query_serialize_to_response(invocations[t].outcome.v,
                                                     invocations[t].operation.v, ThreadRequestIds[1])
       IN  invocations' = [invocations EXCEPT ![t] =
               IF IsRaise(serialized) /\ ExceptClause(Raised(serialized.v, Unused)) # "none"
               THEN [@ EXCEPT !.pc = "except",
                              !.outcome = [t |-> "raise", v |-> Raised(serialized.v, Unused)]]
               ELSE [@ EXCEPT !.pc = "done", !.response = serialized]]
    /\ UNCHANGED dispatch_table
    /\ ThreadFrame

\* the except clauses of invoke, or none of them
T_Except(t) ==
    /\ invocations[t].pc = "except"
    /\ LET clause == ExceptClause(invocations[t].outcome.v)
           operation == invocations[t].operation.v
       IN  invocations' = [invocations EXCEPT ![t] = [@ EXCEPT !.pc = "done", !.response =
               IF clause = "ServiceException"
               THEN serialize_error_to_response(operation.service_model.protocol,
                                                invocations[t].outcome.v.error, operation,
                                                ThreadRequestIds)
               ELSE IF clause = "NotImplementedError"
               THEN serialize_error_to_response(operation.service_model.protocol,
                                                NotImplementedException(operation), operation,
                                                ThreadRequestIds)
               ELSE Raise(invocations[t].outcome.v.type)]]
    /\ UNCHANGED dispatch_table
    /\ ThreadFrame

\* invoke is over for thread t
T_Return(t) ==
    /\ invocations[t].pc = "done"
    /\ invocations' = [invocations EXCEPT ![t] = Idle]
    /\ UNCHANGED dispatch_table
    /\ ThreadFrame

NextThreads ==
    \/ \E t \in Threads, request \in ThreadRequests : T_Invoke(t, request)
    \/ \E t \in Threads : T_Parse(t)
    \/ \E t \in Threads : T_Lookup(t)
    \/ \E t \in Threads : T_Fetch(t)
    \/ \E t \in Threads, result \in ThreadResults : T_HandlerReturns(t, result)
    \/ \E t \in Threads, exception \in ThreadExceptions : T_HandlerRaises(t, exception)
    \/ \E t \in Threads : T_Serialize(t)
    \/ \E t \in Threads : T_Except(t)
    \/ \E t \in Threads : T_Return(t)

SpecThreads == InitThreads /\ [][NextThreads]_vars

\* ------------------------------------------------------------------------
\* Properties of concurrent invocations (SpecThreads)
\* ------------------------------------------------------------------------
\* C14: the dispatch table is fixed when the Skeleton is constructed: no step
\* of any invoke, whatever its outcome and however the invokes of concurrent
\* threads interleave, adds, removes or replaces an entry.
C14_DispatchTableFixed == [][dispatch_table' = dispatch_table]_vars

\* two threads inside invoke at once, one answering a dispatch gap while the
\* other has its handler's response
C14_Witness ==
    /\ NumThreads >= 2
    /\ invocations[1].pc = "done" /\ IsRaise(invocations[1].response)
    /\ invocations[1].response.v = "NotImplementedError"
    /\ invocations[2].pc = "done" /\ IsResponse(invocations[2].response)
    /\ invocations[2].response.v.status_code = 200
    /\ dispatch_table = Skeleton_dispatch_table(<<ServiceRequestHandler(OpSend.name, TRUE, TRUE)>>, 1, <<>>)

\* ------------------------------------------------------------------------
\* The parsers of the protocols that send every parameter in the body
\* ------------------------------------------------------------------------
\* name[0].upper() + name[1:]
Capitalize(name) ==
    IF name = <<>> THEN name
    ELSE <<IF IsLower(name[1]) THEN UpperChars[CHOOSE i \in 1..26 : LowerChars[i] = name[1]]
           ELSE name[1]>> \o Tail(name)

\* EC2RequestParser._get_serialized_name, folded into the shape: every
\* serialization name capitalized (no modelled shape carries a queryName)
RECURSIVE EC2_serialized_names(_)
EC2_serialized_names(shape) ==
    LET ser == [shape.serialization EXCEPT !.name = Capitalize(@)]
    IN  IF shape.type_name = "structure"
        THEN [shape EXCEPT !.serialization = ser,
                           !.members = [j \in 1..Len(shape.members) |->
                                           <<shape.members[j][1], EC2_serialized_names(shape.members[j][2])>>]]
        ELSE [shape EXCEPT !.serialization = ser]

\* QueryRequestParser.parse of the query or ec2 parser of a service; the ec2
\* parser differs in _get_serialized_name and, for lists, which the
\* operations it is applied to here do not have, in FLATTENED_LIST_PREFIX
Query_parse(protocol, operations, request) ==
    LET instance == parse_qs_first(IF request.body.fmt = "text" THEN request.body.doc ELSE <<>>)
    IN  IF ~DictHas(instance, T_Action) THEN Raise("KeyError")
        ELSE IF ~HasOperation(operations, DictGet(instance, T_Action))
             THEN Raise("OperationNotFoundError")
        ELSE LET operation == service_operation_model(operations, DictGet(instance, T_Action))
                 shape == IF operation.input_shape.type_name = "none" THEN operation.input_shape
                          ELSE IF protocol = "ec2" THEN EC2_serialized_names(operation.input_shape)
                          ELSE operation.input_shape
             IN  IF shape.type_name = "none"
                 THEN Raise("AttributeError")
                 ELSE LET parsed == _parse_shape(shape, instance)
                      IN  IF IsRaise(parsed) THEN parsed
                          ELSE [t |-> "parsed", v |-> [operation |-> operation.name, instance |-> parsed]]

T_X_Amz_Target == <<"X", "-", "A", "m", "z", "-", "T", "a", "r", "g", "e", "t">>

\* JSONRequestParser.parse, _do_parse and _handle_json_body (no modelled shape
\* is an event stream)
JSONRequestParser_parse(operations, request) ==
    IF ~DictHas(request.headers, T_X_Amz_Target) THEN Raise("KeyError")
    ELSE LET parts == Split(DictGet(request.headers, T_X_Amz_Target), ".")
         IN  IF Len(parts) # 2 THEN Raise("ValueError")
             ELSE IF ~HasOperation(operations, parts[2]) THEN Raise("OperationNotFoundError")
             ELSE LET operation == service_operation_model(operations, parts[2])
                      parsed == IF operation.input_shape.type_name = "none" THEN PDict(<<>>)
                                ELSE JSON_parse_shape(operation.input_shape,
                                                      _parse_body_as_json(request.body))
                  IN  IF IsRaise(parsed) THEN parsed
                      ELSE [t |-> "parsed", v |-> [operation |-> operation.name, instance |-> parsed]]

\* create_parser(service).parse(request) for the protocols query, ec2 and json
Body_parse(protocol, operations, request) ==
    IF protocol = "json" THEN JSONRequestParser_parse(operations, request)
    ELSE Query_parse(protocol, operations, request)

\* ------------------------------------------------------------------------
\* SpecBody: a query, ec2 or json parser applied to one request
\* ------------------------------------------------------------------------
BodyProtocols == {"query", "ec2", "json"}

T_filter == <<"f", "i", "l", "t", "e", "r">>

T_Filter == <<"F", "i", "l", "t", "e", "r">>

T_Head == <<"H", "e", "a", "d">>

T_Find == <<"F", "i", "n", "d">>

T_Plain == <<"P", "l", "a", "i", "n">>

T_Hdrs == <<"H", "d", "r", "s">>

\* a member bound to a header next to a member of the body
OpHead == Operation(T_Head,
    StructureShape(<< <<T_Token, Scalar("string", Ser(T_x_token, FALSE, "header"))>>,
                      <<T_Name, StringShape>> >>, NoSer),
    <<>>, 0)

\* members bound to the query string and to the URI path
OpFind == Operation(T_Find,
    StructureShape(<< <<T_Filter, Scalar("string", Ser(T_filter, FALSE, "querystring"))>>,
                      <<<<"I", "d">>, Scalar("string", Ser(<<"i", "d">>, FALSE, "uri"))>>,
                      <<T_Name, StringShape>> >>, NoSer),
    <<>>, 0)

\* a member collecting the headers with a prefix
OpHdrs == Operation(T_Hdrs,
    StructureShape(<< <<T_Meta, Scalar("string", Ser(T_x_meta_, FALSE, "headers"))>>,
                      <<T_Name, StringShape>> >>, NoSer),
    <<>>, 0)

\* no member bound outside the body
OpPlain == Operation(T_Plain,
    StructureShape(<< <<T_Name, StringShape>>, <<T_Size, Scalar("integer", NoSer)>> >>, NoSer),
    <<>>, 0)

T_Nest == <<"N", "e", "s", "t">>

T_Tok == <<"T", "o", "k">>

T_tk == <<"t", "k">>

T_Inner == <<"I", "n", "n", "e", "r">>

T_Doc == <<"D", "o", "c">>

T_zz == <<"z", "z">>

\* a member with a wire name of its own, a nested structure, a map of
\* structures and a document member
OpNest == Operation(T_Nest,
    StructureShape(<< <<T_Name, StringShape>>,
                      <<T_Tok, Scalar("string", Named(T_tk))>>,
                      <<T_Inner, StructureShape(<< <<<<"I", "d">>, StringShape>> >>, NoSer)>>,
                      <<T_Meta, MapShape(StringShape,
                                         StructureShape(<< <<<<"I", "d">>, StringShape>> >>, NoSer),
                                         NoSer)>>,
                      <<T_Doc, DocumentShape>> >>, NoSer),
    <<>>, 0)

BodyOperations == <<OpHead, OpFind, OpHdrs, OpPlain, OpNest>>

\* X-Amz-Target values: the operations, an unknown one, one without a dot
Targets ==
    {<<"S", "v", "c", ".">> \o name : name \in {T_Head, T_Find, T_Hdrs, T_Plain, T_Nest, <<"N", "o", "p", "e">>}}
    \cup {T_Head}

BodyHeaders ==
    {<<>>, << <<T_x_token, <<"t", "1">> >> >>}
    \cup {<< <<T_X_Amz_Target, target>> >> : target \in Targets}
    \cup {<< <<T_X_Amz_Target, target>>, <<T_x_token, <<"t", "1">> >> >> : target \in Targets}

\* Action=<name>&<key>=v for every operation and every key a member may be
\* sent under, and Action=<name> alone
FormBodies ==
    {urlencode(<< <<T_Action, PStr(name)>> >> \o rest) :
        name \in {T_Head, T_Find, T_Hdrs, T_Plain, <<"N", "o", "p", "e">>},
        rest \in {<<>>} \cup
                 {<< <<key, PStr(<<"v">>)>> >> :
                     key \in {T_Name, T_x_token, Capitalize(T_x_token), T_filter, T_Filter,
                              <<"i", "d">>, <<"I", "d">>, T_x_meta_}}}

\* JSON bodies with keys no member is sent under, with null and empty nested
\* structures, with a document, and the body null
NestBodies ==
    {JsonBody(None)}
    \cup {JsonBody(PDict(d)) :
            d \in {<< <<T_Name, PStr(<<"v">>)>>, <<T_zz, PStr(<<"w">>)>> >>,
                   << <<T_tk, PStr(<<"v">>)>>, <<T_Tok, PStr(<<"w">>)>> >>,
                   << <<T_Inner, None>>, <<T_Name, PStr(<<"v">>)>> >>,
                   << <<T_Inner, PDict(<<>>)>> >>,
                   << <<T_Inner, PDict(<< <<<<"I", "d">>, PStr(<<"v">>)>>, <<T_zz, PStr(<<"w">>)>> >>)>> >>,
                   << <<T_Meta, PDict(<< <<<<"a">>, PDict(<< <<T_zz, PStr(<<"w">>)>> >>)>>,
                                         <<<<"b">>, None>> >>)>> >>,
                   << <<T_Doc, PDict(<< <<T_zz, PStr(<<"w">>)>> >>)>> >>,
                   << <<T_Doc, None>> >>}}

JsonBodies ==
    {JsonBody(PDict(d)) :
        d \in {<<>>} \cup
              {<< <<key, PStr(<<"v">>)>> >> : key \in {T_Name, T_x_token, T_filter, <<"i", "d">>, T_x_meta_}}
              \cup {<< <<T_x_token, None>>, <<T_Size, PInt(3)>> >>}}
    \cup NestBodies

BodyRequests(protocol) ==
    {HttpRequest(T_POST, P_root, headers, body) :
        headers \in BodyHeaders,
        body \in {EmptyBody} \cup {TextBody(text) : text \in FormBodies}
                 \cup (IF protocol = "json" THEN JsonBodies ELSE {})}

\* create_parser(service) and the request at hand
InitBody ==
    /\ b_protocol \in BodyProtocols
    /\ b_request \in BodyRequests(b_protocol)
    /\ b_result = Pending
    /\ QueryUnused
    /\ SerializerUnused
    /\ SkeletonUnused
    /\ RestUnused
    /\ ThreadsUnused
    /\ ResponseUnused
    /\ CodecUnused
    /\ SqsUnused

\* parser.parse(request)
BodyParse ==
    /\ b_result = Pending
    /\ b_result' = Body_parse(b_protocol, BodyOperations, b_request)
    /\ UNCHANGED <<b_protocol, b_request, vars_query, vars_serializer, vars_skeleton>>
    /\ UNCHANGED <<vars_rest, vars_threads, vars_response, vars_codec, vars_sqs>>

NextBody == BodyParse

SpecBody == InitBody /\ [][NextBody]_vars

\* ------------------------------------------------------------------------
\* Properties of the body parsers (SpecBody)
\* ------------------------------------------------------------------------
\* the name of the operation the request addresses, <<>> when it names none
AddressedName ==
    IF b_protocol = "json"
    THEN (IF DictHas(b_request.headers, T_X_Amz_Target)
             /\ Len(Split(DictGet(b_request.headers, T_X_Amz_Target), ".")) = 2
          THEN Split(DictGet(b_request.headers, T_X_Amz_Target), ".")[2] ELSE <<>>)
    ELSE LET instance == parse_qs_first(IF b_request.body.fmt = "text" THEN b_request.body.doc ELSE <<>>)
         IN  IF DictHas(instance, T_Action) THEN DictGet(instance, T_Action) ELSE <<>>

Addressed == HasOperation(BodyOperations, AddressedName)

AddressedOperation == service_operation_model(BodyOperations, AddressedName)

UnsupportedLocations == {"header", "headers", "querystring", "uri"}

\* the members of a structure bound to a header, the headers, the query
\* string or the URI
BoundMembers(shape) ==
    {shape.members[j][1] : j \in {k \in 1..Len(shape.members) :
                                     shape.members[k][2].serialization.location \in UnsupportedLocations}}

\* C16: with a query, ec2 or json parser, parsing a request for an operation
\* whose input has a member bound to a header, the headers, the query string
\* or the URI fails with NotImplementedError; it never completes with that
\* member missing from the result.
C16_BoundMemberRaises ==
    (b_result # Pending /\ Addressed /\ BoundMembers(AddressedOperation.input_shape) # {}) =>
        (IsRaise(b_result) /\ b_result.v = "NotImplementedError")

\* parse completed for operation Head although its member Token is bound to
\* a header, which the request even carries; Token is not in the result
C16_SilentlyMissing ==
    /\ b_result.t = "parsed" /\ b_result.v.operation = T_Head
    /\ DictHas(b_request.headers, T_x_token)
    /\ b_result.v.instance.t = "dict"
    /\ DictHas(b_result.v.instance.v, T_Name)
    /\ ~DictHas(b_result.v.instance.v, T_Token)

\* the not-implemented failure is reached when the body itself carries a
\* value under the member's wire name
C16_RaisesWhenKeySent ==
    /\ IsRaise(b_result) /\ b_result.v = "NotImplementedError"
    /\ Addressed /\ AddressedName = T_Find

\* ------------------------------------------------------------------------
\* Response serializers: the success path of every protocol
\* ------------------------------------------------------------------------
\* BaseXMLResponseSerializer._serialize_body_params_to_xml: None without an
\* output shape, else the first element serialized under the pseudo root
BaseXML_serialize_body_params_to_xml(params, shape) ==
    IF shape.type_name = "none" THEN None
    ELSE LET added == XML_serialize(shape, params,
                                    IF shape.serialization.name # <<>>
                                    THEN shape.serialization.name ELSE shape.name)
         IN  IF IsRaise(added) THEN added
             ELSE IF added.v = <<>> THEN Raise("IndexError")
             ELSE ElementNode(added.v[1])

\* BaseXMLResponseSerializer._serialize_body_params of the rest-xml class:
\* _prepare_additional_traits_in_xml does nothing, ETree.tostring(None) raises
RestXML_serialize_body_params(params, shape) ==
    LET root == BaseXML_serialize_body_params_to_xml(params, shape)
    IN  IF IsNone(root) THEN Raise("AttributeError") ELSE root

T_requestId == <<"r", "e", "q", "u", "e", "s", "t", "I", "d">>

\* EC2ResponseSerializer._prepare_additional_traits_in_xml: root[0] is taken
\* out and its children moved up, then the requestId element is added
EC2_prepare_additional_traits_in_xml(root, request_id) ==
    IF root.children = <<>> THEN Raise("IndexError")
    ELSE ElementNode([root EXCEPT !.children =
             Tail(root.children) \o root.children[1].children
             \o <<Element(T_requestId, <<>>, request_id, <<>>)>>])

\* BaseXMLResponseSerializer._serialize_body_params of the ec2 class
EC2_serialize_body_params(params, shape, operation_model, request_id) ==
    LET root == Query_serialize_body_params_to_xml(params, shape, operation_model)
    IN  IF IsRaise(root) THEN root
        ELSE EC2_prepare_additional_traits_in_xml(root.v, request_id)

RECURSIVE JSON_serialize(_, _, _, _)
RECURSIVE JSON_serialize_members(_, _, _, _)
RECURSIVE JSON_serialize_entries(_, _, _, _)
RECURSIVE JSON_serialize_items(_, _, _, _)

\* the for loop of JSONResponseSerializer._serialize_type_structure
JSON_serialize_members(body, items, shape, i) ==
    IF i > Len(items) THEN PDict(body)
    ELSE IF ~HasMember(shape, items[i][1]) THEN Raise("KeyError")
    ELSE LET member_shape == MemberShapeOf(shape, items[i][1])
             member_key == _get_serialized_name(member_shape, items[i][1])
             added == JSON_serialize(body, items[i][2], member_shape, member_key)
         IN  IF IsRaise(added) THEN added
             ELSE JSON_serialize_members(added.v, items, shape, i + 1)

\* the for loop of JSONResponseSerializer._serialize_type_map
JSON_serialize_entries(map_obj, items, shape, i) ==
    IF i > Len(items) THEN PDict(map_obj)
    ELSE LET added == JSON_serialize(map_obj, items[i][2], shape.value, items[i][1])
         IN  IF IsRaise(added) THEN added
             ELSE JSON_serialize_entries(added.v, items, shape, i + 1)

\* the for loop of JSONResponseSerializer._serialize_type_list
JSON_serialize_items(list_obj, items, shape, i) ==
    IF i > Len(items) THEN PList(list_obj)
    ELSE LET wrapper == JSON_serialize(<<>>, items[i], shape.member,
                                       <<"_", "_", "c", "u", "r", "r", "e", "n", "t", "_", "_">>)
         IN  IF IsRaise(wrapper) THEN wrapper
             ELSE JSON_serialize_items(Append(list_obj, wrapper.v[1][2]), items, shape, i + 1)

\* JSONResponseSerializer._serialize with a key, and the _serialize_type_*
\* method it dispatches to: the body dict with body[key] set, or the exception
JSON_serialize(body, value, shape, key) ==
    IF shape.type_name = "structure"
    THEN (IF shape.is_document_type THEN PDict(DictSet(body, key, value))
          ELSE IF value.t # "dict" THEN Raise("AttributeError")
          ELSE LET new_serialized == JSON_serialize_members(<<>>, value.v, shape, 1)
               IN  IF IsRaise(new_serialized) THEN new_serialized
                   ELSE PDict(DictSet(body, key, new_serialized)))
    ELSE IF shape.type_name = "map"
    THEN (IF value.t # "dict" THEN Raise("AttributeError")
          ELSE LET map_obj == JSON_serialize_entries(<<>>, value.v, shape, 1)
               IN  IF IsRaise(map_obj) THEN map_obj
                   ELSE PDict(DictSet(body, key, map_obj)))
    ELSE IF shape.type_name = "list"
    THEN (IF value.t # "list" THEN Raise("TypeError")
          ELSE LET list_obj == JSON_serialize_items(<<>>, value.v, shape, 1)
               IN  IF IsRaise(list_obj) THEN list_obj
                   ELSE PDict(DictSet(body, key, list_obj)))
    ELSE PDict(DictSet(body, key, value))

T_json_content_type ==
    <<"a", "p", "p", "l", "i", "c", "a", "t", "i", "o", "n", "/",
      "x", "-", "a", "m", "z", "-", "j", "s", "o", "n", "-">>

\* JSONResponseSerializer._serialize_payload: the headers are replaced when the
\* service declares a jsonVersion; the body is {} filled by the walk of the
\* output structure (key None: the members go into the body itself)
JSON_serialize_payload(parameters, serialized, shape, operation_model) ==
    LET json_version == operation_model.service_model.metadata.jsonVersion
        headers == IF IsNone(json_version) THEN serialized.v.headers
                   ELSE << <<"Content-Type", PStr(T_json_content_type \o json_version.v)>> >>
        body == IF shape.type_name = "none" THEN PDict(<<>>)
                ELSE IF parameters.t # "dict" THEN Raise("AttributeError")
                ELSE JSON_serialize_members(<<>>, parameters.v, shape, 1)
    IN  IF IsRaise(body) THEN body
        ELSE HttpResponse(headers, JsonBody(body), serialized.v.status_code)

\* _serialize_payload of the protocol's class on a response built by make_default
serialize_payload_from(protocol, response, serialized_response, operation_model, request_ids) ==
    LET shape == operation_model.output_shape
    IN  IF protocol = "query"
        THEN WithBody(serialized_response,
                      Query_serialize_body_params(response, shape, operation_model, request_ids[1]))
        ELSE IF protocol = "ec2"
        THEN WithBody(serialized_response,
                      EC2_serialize_body_params(response, shape, operation_model, request_ids[1]))
        ELSE IF protocol = "rest-xml"
        THEN WithBody(serialized_response, RestXML_serialize_body_params(response, shape))
        ELSE JSON_serialize_payload(response, serialized_response, shape, operation_model)

\* ResponseSerializer.serialize_to_response of the serializer of a protocol;
\* request_ids are the values gen_amzn_requestid_long() returns, in the order
\* of the calls
serialize_to_response(protocol, response, operation_model, request_ids) ==
    LET serialized_response == _create_default_response(operation_model)
        with_body == serialize_payload_from(protocol, response, serialized_response,
                                            operation_model, request_ids)
    IN  IF IsRaise(with_body) THEN with_body
        ELSE _prepare_additional_traits_in_response(
                 protocol, with_body, operation_model,
                 IF protocol \in {"query", "ec2"} THEN Tail(request_ids) ELSE request_ids)

\* ------------------------------------------------------------------------
\* The reference decoder of the serializer tests: botocore's QueryParser
\* ------------------------------------------------------------------------
RECURSIVE Ref_parse_shape(_, _)
RECURSIVE Ref_handle_structure_from(_, _, _, _)
RECURSIVE Ref_handle_list_from(_, _, _, _)
RECURSIVE Ref_handle_map_from(_, _, _, _)

Ref_handle_structure_from(shape, xml_dict, j, parsed) ==
    IF j > Len(shape.members) THEN PDict(parsed)
    ELSE LET member_name == shape.members[j][1]
             member_shape == shape.members[j][2]
             xml_name == _member_key_name(member_shape, member_name)
         IN  IF member_shape.serialization.location # "" \/ ~DictHas(xml_dict, xml_name)
             THEN Ref_handle_structure_from(shape, xml_dict, j + 1, parsed)
             ELSE LET value == Ref_parse_shape(member_shape, DictGet(xml_dict, xml_name))
                  IN  IF IsRaise(value) THEN value
                      ELSE Ref_handle_structure_from(shape, xml_dict, j + 1,
                                                     DictSet(parsed, member_name, value))

Ref_handle_list_from(shape, items, i, parsed) ==
    IF i > Len(items) THEN PList(parsed)
    ELSE LET value == Ref_parse_shape(shape.member, ElementNode(items[i]))
         IN  IF IsRaise(value) THEN value
             ELSE Ref_handle_list_from(shape, items, i + 1, Append(parsed, value))

\* the element of an entry that carries the given tag
PairChild(keyval_node, tag) ==
    keyval_node.children[CHOOSE n \in 1..Len(keyval_node.children) :
                            /\ keyval_node.children[n].tag = tag
                            /\ \A m \in (n + 1)..Len(keyval_node.children) :
                                   keyval_node.children[m].tag # tag]

Ref_handle_map_from(shape, entries, i, parsed) ==
    IF i > Len(entries) THEN PDict(parsed)
    ELSE LET key_location_name == _get_serialized_name(shape.key, <<"k", "e", "y">>)
             value_location_name == _get_serialized_name(shape.value, <<"v", "a", "l", "u", "e">>)
         IN  IF ~HasChild(entries[i], key_location_name) \/ ~HasChild(entries[i], value_location_name)
             THEN Raise("UnboundLocalError")
             ELSE LET key_name == Ref_parse_shape(shape.key,
                                                  ElementNode(PairChild(entries[i], key_location_name)))
                      val_name == Ref_parse_shape(shape.value,
                                                  ElementNode(PairChild(entries[i], value_location_name)))
                  IN  IF IsRaise(key_name) THEN key_name
                      ELSE IF IsRaise(val_name) THEN val_name
                      ELSE Ref_handle_map_from(shape, entries, i + 1,
                                               DictSet(parsed, key_name.v, val_name))

\* the elements a list or map handler iterates over
NodeItems(shape, node) ==
    IF node.t = "list" THEN node.v
    ELSE IF shape.serialization.flattened THEN <<node.v>>
    ELSE node.v.children

\* BaseXMLResponseParser._parse_shape and its _handle_* methods
Ref_parse_shape(shape, node) ==
    IF shape.type_name = "structure"
    THEN Ref_handle_structure_from(shape, _build_name_to_xml_node(node), 1, <<>>)
    ELSE IF shape.type_name = "list"
    THEN Ref_handle_list_from(shape, NodeItems(shape, node), 1, <<>>)
    ELSE IF shape.type_name = "map"
    THEN Ref_handle_map_from(shape, NodeItems(shape, node), 1, <<>>)
    ELSE LET text == _get_text_content(node)
         IN  IF text.t # "str" THEN Raise("TypeError")
             ELSE IF shape.type_name \in {"integer", "long"} THEN _parse_integer(text.v)
             ELSE IF shape.type_name = "boolean" THEN PBool(text.v = T_true)
             ELSE text

\* QueryParser._parse_body_as_xml with inject_metadata: the walk starts at the
\* root, or at the child named by resultWrapper; the children of
\* ResponseMetadata are injected as texts
Ref_parse_body_as_xml(body, shape) ==
    LET root == ElementNode(fromstring(body.doc))
        mapping == _build_name_to_xml_node(root)
        parsed == IF shape.type_name = "none" THEN PDict(<<>>)
                  ELSE IF shape.serialization.resultWrapper = <<>> THEN Ref_parse_shape(shape, root)
                  ELSE IF ~DictHas(mapping, shape.serialization.resultWrapper) THEN Raise("KeyError")
                  ELSE Ref_parse_shape(shape, DictGet(mapping, shape.serialization.resultWrapper))
    IN  IF IsRaise(parsed) THEN parsed
        ELSE IF ~DictHas(mapping, T_ResponseMetadata) THEN parsed
        ELSE LET sub_mapping == _build_name_to_xml_node(DictGet(mapping, T_ResponseMetadata))
             IN  PDict(DictSet(parsed.v, T_ResponseMetadata,
                               PDict([n \in 1..Len(sub_mapping) |->
                                         <<sub_mapping[n][1], _get_text_content(sub_mapping[n][2])>>])))

\* ------------------------------------------------------------------------
\* SpecResponse: one handler outcome serialized by the serializer of a service
\* ------------------------------------------------------------------------
\* a Query service whose metadata has no "xmlNamespace"
PlainQueryService == ServiceModel(<<"i", "e">>, "query", Metadata(None, None))

ResponseServices ==
    {Services[i] : i \in 1..Len(Services)} \cup {PlainQueryService}

T_Urls == <<"U", "r", "l", "s">>

T_Url == <<"U", "r", "l">>

T_Ok == <<"O", "k">>

T_State == <<"S", "t", "a", "t", "e">>

\* SQS ListQueues-like output: a flattened list whose member is named, and a
\* boolean, under a result wrapper
OpUrls == [Operation(T_Urls, NoShape, <<>>, 0) EXCEPT !.output_shape =
    OutputShape(<<"U", "r", "l", "s", "O", "u", "t">>,
                << <<T_Urls, ListShape(Scalar("string", Named(T_Url)), Flat)>>,
                   <<T_Ok, Scalar("boolean", NoSer)>> >>,
                Wrapped(<<"U", "r", "l", "s", "R", "e", "s", "u", "l", "t">>))]

\* an output structure without a result wrapper
OpShow == [Operation(<<"S", "h", "o", "w">>, NoShape, <<>>, 0) EXCEPT !.output_shape =
    OutputShape(<<"S", "h", "o", "w", "O", "u", "t">>,
                << <<T_State, StringShape>> >>, NoSer)]

ResponseOps == {OpSend, OpUrls, OpShow, OpAttr, OpConf, OpPing}

\* what a handler returns for an operation: a value of the output shape or
\* None; without an output shape None or an empty dict
Results(operation_model) ==
    IF operation_model.output_shape.type_name = "none" THEN {None, PDict(<<>>)}
    ELSE Values(operation_model.output_shape) \cup {None}

ReturnsCall(value) == [kind |-> "result", outcome |-> value]

RaisesCall(error) == [kind |-> "error", outcome |-> error]

\* the exceptions handlers raise in this specification
ResponseErrors ==
    {ServiceException(cls, <<"a", "&", "b">>) : cls \in ErrorClasses}
    \cup {CommonServiceException(T_InternalFailure, <<>>, 501, FALSE)}

InitResponse ==
    /\ o_service \in ResponseServices
    /\ o_operation \in {OperationOf(o_service, op) : op \in ResponseOps}
    /\ o_call \in {ReturnsCall(v) : v \in Results(o_operation)}
                  \cup {RaisesCall(e) : e \in ResponseErrors}
    /\ o_request_ids \in RequestIdSeqs
    /\ o_result = Pending
    /\ QueryUnused
    /\ SerializerUnused
    /\ SkeletonUnused
    /\ RestUnused
    /\ ThreadsUnused
    /\ BodyUnused
    /\ CodecUnused
    /\ SqsUnused

\* serializer.serialize_to_response(result, operation)
SerializeSuccess ==
    /\ o_result = Pending
    /\ o_call.kind = "result"
    /\ o_result' = serialize_to_response(o_service.protocol, o_call.outcome,
                                         o_operation, o_request_ids)
    /\ UNCHANGED <<o_service, o_operation, o_call, o_request_ids>>
    /\ UNCHANGED <<vars_query, vars_serializer, vars_skeleton, vars_rest, vars_threads, vars_body, vars_codec, vars_sqs>>

\* serializer.serialize_error_to_response(e, operation)
SerializeFailure ==
    /\ o_result = Pending
    /\ o_call.kind = "error"
    /\ o_result' = serialize_error_to_response(o_service.protocol, o_call.outcome,
                                               o_operation, o_request_ids)
    /\ UNCHANGED <<o_service, o_operation, o_call, o_request_ids>>
    /\ UNCHANGED <<vars_query, vars_serializer, vars_skeleton, vars_rest, vars_threads, vars_body, vars_codec, vars_sqs>>

NextResponse == SerializeSuccess \/ SerializeFailure

SpecResponse == InitResponse /\ [][NextResponse]_vars

\* ------------------------------------------------------------------------
\* Properties of SpecResponse
\* ------------------------------------------------------------------------
\* serialize_to_response has returned a response for a handler's result
Returned == IsResponse(o_result) /\ o_call.kind = "result"

\* C17: every response serialize_to_response returns, for whatever protocol
\* and result value, has the status the operation declares as its default
\* response code, and 200 when the operation declares none
C17_StatusIsDeclaredOrDefault ==
    Returned =>
        o_result.v.status_code = IF o_operation.http_responseCode # 0
                                 THEN o_operation.http_responseCode ELSE 200

\* a response to an operation that declares the response code 201
C17_Witness ==
    /\ Returned
    /\ o_operation.http_responseCode = 201
    /\ o_result.v.status_code = 201

\* the response carries the header, and its value is one of the ids that
\* gen_amzn_requestid_long() generated during the call
HasRequestIdHeader(response, name) ==
    /\ DictHas(response.v.headers, name)
    /\ \E i \in 1..Len(o_request_ids) :
           DictGet(response.v.headers, name) = PStr(o_request_ids[i])

\* C18: every response returned by serialize_to_response or
\* serialize_error_to_response carries the request-id headers of its protocol
\* family, each holding a generated id: x-amzn-requestid for json, both
\* x-amzn-requestid and x-amz-request-id for rest-json, x-amz-request-id for
\* rest-xml; nothing after the step that sets them removes or replaces them
C18_RequestIdHeaders ==
    IsResponse(o_result) =>
        /\ o_service.protocol = "json" =>
               HasRequestIdHeader(o_result, "x-amzn-requestid")
        /\ o_service.protocol = "rest-json" =>
               /\ HasRequestIdHeader(o_result, "x-amzn-requestid")
               /\ HasRequestIdHeader(o_result, "x-amz-request-id")
        /\ o_service.protocol = "rest-xml" =>
               HasRequestIdHeader(o_result, "x-amz-request-id")

\* a rest-json success response of an operation that requires a checksum:
\* Content-MD5 was added and both request-id headers are there
C18_Witness ==
    /\ Returned
    /\ o_service.protocol = "rest-json"
    /\ o_operation.http_checksum_required
    /\ o_request_ids[1] # o_request_ids[2]
    /\ DictHas(o_result.v.headers, "Content-MD5")
    /\ HasRequestIdHeader(o_result, "x-amzn-requestid")
    /\ HasRequestIdHeader(o_result, "x-amz-request-id")

\* an error response of a rest-xml service with its request-id header
C18_ErrorWitness ==
    /\ IsResponse(o_result)
    /\ o_call.kind = "error"
    /\ o_service.protocol = "rest-xml"
    /\ HasRequestIdHeader(o_result, "x-amz-request-id")

\* the call was for an operation without an output shape and has ended
AbsentOutputCall ==
    /\ o_result.t \notin {"unused", "pending"}
    /\ o_call.kind = "result"
    /\ o_operation.output_shape.type_name = "none"

\* a body that carries nothing of a result: no bytes, the JSON object {}, or
\* an XML root holding at most the request-id metadata of its protocol
NoResultContent(body) ==
    \/ body.fmt = "empty"
    \/ body.fmt = "json" /\ body.doc = PDict(<<>>)
    \/ /\ body.fmt = "xml"
       /\ \A i \in 1..Len(body.doc.children) :
              body.doc.children[i].tag \in {T_ResponseMetadata, T_requestId}

\* C19: for every protocol, serialize_to_response for an operation without an
\* output shape completes without raising and returns a response with the
\* default status and a body that carries no result (read generously: the
\* metadata the protocol adds to every body is allowed)
C19_AbsentOutputSerializes ==
    AbsentOutputCall =>
        /\ IsResponse(o_result)
        /\ o_result.v.status_code = IF o_operation.http_responseCode # 0
                                    THEN o_operation.http_responseCode ELSE 200
        /\ NoResultContent(o_result.v.body)

\* the rest-xml serializer raises for an operation without an output shape
C19_RestXmlRaises ==
    /\ AbsentOutputCall
    /\ o_service.protocol = "rest-xml"
    /\ IsRaise(o_result)
    /\ o_result.v = "AttributeError"

\* so does the ec2 serializer
C19_Ec2Raises ==
    /\ AbsentOutputCall
    /\ o_service.protocol = "ec2"
    /\ IsRaise(o_result)
    /\ o_result.v = "IndexError"

\* the Query serializer of a service with an xmlNamespace and the JSON
\* serializers do complete, with a body that holds no result
C19_QueryAndJsonComplete ==
    (AbsentOutputCall /\ o_service \in {SqsService, JsonService, RestJsonService}) =>
        /\ IsResponse(o_result)
        /\ NoResultContent(o_result.v.body)

C19_QueryCompletes ==
    /\ AbsentOutputCall
    /\ o_service = SqsService
    /\ IsResponse(o_result)
    /\ o_result.v.body.fmt = "xml"
    /\ Len(o_result.v.body.doc.children) = 1

\* del parsed["ResponseMetadata"]
WithoutMetadata(parsed) ==
    PDict(SelectSeq(parsed.v, LAMBDA item : item[1] # T_ResponseMetadata))

\* the elements of the root that carry the given tag
ChildrenNamed(root, tag) ==
    SelectSeq(root.children, LAMBDA child : child.tag = tag)

\* the root is <OperationName>Response and holds exactly one ResponseMetadata
\* element, which holds one RequestId with a generated id
QueryEnvelope(body, operation_model) ==
    /\ body.fmt = "xml"
    /\ LET root == fromstring(body.doc)
           metadata == ChildrenNamed(root, T_ResponseMetadata)
       IN  /\ root.tag = operation_model.name \o T_Response
           /\ Len(metadata) = 1
           /\ Len(metadata[1].children) = 1
           /\ metadata[1].children[1].tag = T_RequestId
           /\ \E i \in 1..Len(o_request_ids) : metadata[1].children[1].text = o_request_ids[i]

\* the reference parser's reading of the body is the handler's result plus
\* the request id (a handler that returns None for an operation without an
\* output shape has the empty result)
DecodesTo(body, operation_model, result) ==
    LET parsed == Ref_parse_body_as_xml(body, operation_model.output_shape)
    IN  /\ parsed.t = "dict"
        /\ DictHas(parsed.v, T_ResponseMetadata)
        /\ \E i \in 1..Len(o_request_ids) :
               PyEq(DictGet(parsed.v, T_ResponseMetadata),
                    PDict(<< <<T_RequestId, PStr(o_request_ids[i])>> >>))
        /\ PyEq(WithoutMetadata(parsed), IF IsNone(result) THEN PDict(<<>>) ELSE result)

\* C20: the body of a Query success response is an XML document whose root is
\* named <OperationName>Response and contains exactly one ResponseMetadata
\* element with one RequestId child, and the reference Query response parser
\* decodes it to exactly the serialized result plus that request id
C20_QueryResponseDecodes ==
    (Returned /\ o_service.protocol = "query") =>
        /\ QueryEnvelope(o_result.v.body, o_operation)
        /\ DecodesTo(o_result.v.body, o_operation, o_call.outcome)

\* the envelope half of the claim holds of every Query success response
C20_Envelope ==
    (Returned /\ o_service.protocol = "query") => QueryEnvelope(o_result.v.body, o_operation)

\* an output structure without a result wrapper is serialized one level below
\* the place the reference parser reads: the result's State does not come back
C20_UnwrappedLost ==
    /\ Returned
    /\ o_service = SqsService
    /\ o_operation.name = OpShow.name
    /\ DictHas(o_call.outcome.v, T_State)
    /\ PyEq(WithoutMetadata(Ref_parse_body_as_xml(o_result.v.body, o_operation.output_shape)),
            PDict(<<>>))

\* an empty flattened list leaves no element in the body and is not decoded
C20_EmptyFlattenedLost ==
    /\ Returned
    /\ o_service = SqsService
    /\ o_operation.name = OpUrls.name
    /\ DictHas(o_call.outcome.v, T_Urls)
    /\ DictGet(o_call.outcome.v, T_Urls) = PList(<<>>)
    /\ ~DictHas(Ref_parse_body_as_xml(o_result.v.body, o_operation.output_shape).v, T_Urls)

\* results under a result wrapper that hold no empty flattened list do come
\* back as they were given
C20_WrappedRoundTrip ==
    (/\ Returned
     /\ o_service.protocol = "query"
     /\ o_operation.name \in {OpSend.name, OpUrls.name}
     /\ ~(DictHas(o_call.outcome.v, T_Urls) /\ DictGet(o_call.outcome.v, T_Urls) = PList(<<>>)))
    => DecodesTo(o_result.v.body, o_operation, o_call.outcome)

\* a wrapped result with a list of two urls and a boolean that came back
C20_RoundTripWitness ==
    /\ Returned
    /\ o_service = SqsService
    /\ o_operation.name = OpUrls.name
    /\ DictHas(o_call.outcome.v, T_Urls)
    /\ DictHas(o_call.outcome.v, T_Ok)
    /\ Len(DictGet(o_call.outcome.v, T_Urls).v) = 2
    /\ DecodesTo(o_result.v.body, o_operation, o_call.outcome)

\* ------------------------------------------------------------------------
\* Properties of SpecSerializer: the JSON error body
\* ------------------------------------------------------------------------
\* the code an exception resolves to: a common exception's own code, else the
\* code of the error shape named like the exception's class, else that name
ResolvedCode(error, operation_model) ==
    IF error.common THEN error.code
    ELSE LET shape == operation_model.error_shapes[
                          CHOOSE i \in 1..Len(operation_model.error_shapes) :
                              /\ operation_model.error_shapes[i].name = error.cls
                              /\ \A j \in 1..(i - 1) :
                                     operation_model.error_shapes[j].name # error.cls]
         IN  IF shape.code = <<>> THEN shape.name ELSE shape.code

JsonErrorReturned ==
    /\ IsResponse(s_result)
    /\ s_service.protocol \in {"json", "rest-json"}

\* C21: for the json and rest-json protocols the body serialize_error_to_response
\* produces is a JSON object with exactly the keys "__type", holding the
\* resolved error code, and "message", holding the exception's message text,
\* for modeled and for common exceptions
C21_JsonErrorBody ==
    JsonErrorReturned =>
        /\ s_result.v.body.fmt = "json"
        /\ DictKeys(s_result.v.body.doc) = {"__type", "message"}
        /\ Len(s_result.v.body.doc) = 2
        /\ DictGet(s_result.v.body.doc, "__type") = ResolvedCode(s_error, s_operation)
        /\ DictGet(s_result.v.body.doc, "message") = s_error.message

\* a modeled exception whose error shape overrides the code, on rest-json
C21_Witness ==
    /\ JsonErrorReturned
    /\ s_service.protocol = "rest-json"
    /\ ~s_error.common
    /\ s_error.message # <<>>
    /\ DictGet(s_result.v.body.doc, "__type") # s_error.cls

\* a common exception on json
C21_CommonWitness ==
    /\ JsonErrorReturned
    /\ s_service.protocol = "json"
    /\ s_error.common
    /\ DictGet(s_result.v.body.doc, "__type") = s_error.code

\* ------------------------------------------------------------------------
\* Properties of SpecBody: JSON structures
\* ------------------------------------------------------------------------
RECURSIVE WireFaithful(_, _, _, _)

\* parsed holds of the wire value only what the shape's members name: a null
\* structure is absent (None), every entry of a parsed structure belongs to a
\* member whose wire name the wire object holds with a value other than null,
\* and no member without such a value has an entry; maps are judged value by
\* value. With documents_free, a document structure is the wire value itself.
WireFaithful(shape, value, parsed, documents_free) ==
    IF shape.type_name = "structure" /\ documents_free /\ shape.is_document_type
    THEN parsed = value
    ELSE IF shape.type_name = "structure"
    THEN IF IsNone(value) THEN IsNone(parsed)
         ELSE /\ parsed.t = "dict"
              /\ \A k \in DictKeys(parsed.v) :
                     \E j \in 1..Len(shape.members) : shape.members[j][1] = k
              /\ \A j \in 1..Len(shape.members) :
                     LET member_name == shape.members[j][1]
                         wire_name == IF shape.members[j][2].serialization.name # <<>>
                                      THEN shape.members[j][2].serialization.name
                                      ELSE member_name
                         sent == /\ DictHas(value.v, wire_name)
                                 /\ ~IsNone(DictGet(value.v, wire_name))
                     IN  /\ DictHas(parsed.v, member_name) <=> sent
                         /\ sent => WireFaithful(shape.members[j][2],
                                                 DictGet(value.v, wire_name),
                                                 DictGet(parsed.v, member_name),
                                                 documents_free)
    ELSE IF shape.type_name = "map"
    THEN /\ parsed.t = "dict"
         /\ DictKeys(parsed.v) = DictKeys(value.v)
         /\ \A k \in DictKeys(value.v) :
                WireFaithful(shape.value, DictGet(value.v, k), DictGet(parsed.v, k),
                             documents_free)
    ELSE TRUE

\* the JSON parser returned for a request with a JSON body
JsonParsed ==
    /\ b_protocol = "json"
    /\ b_result.t = "parsed"
    /\ b_request.body.fmt = "json"

JsonInputShape == service_operation_model(BodyOperations, b_result.v.operation).input_shape

\* C22 as stated: in JSON structure parsing a body key that matches no
\* member's wire name never appears in the parsed result, and a structure
\* whose wire value is null parses to absent, so a null nested structure
\* member has no entry in its parent; for every structure shape
C22_UnknownKeysDropped ==
    JsonParsed =>
        WireFaithful(JsonInputShape, b_request.body.doc, b_result.v.instance, FALSE)

\* C22 amended: the same for every structure shape that is not a document
\* type; the value of a document-type structure is the wire value unchanged,
\* with all of its keys
C22_UnknownKeysDroppedButDocuments ==
    JsonParsed =>
        WireFaithful(JsonInputShape, b_request.body.doc, b_result.v.instance, TRUE)

\* a nested structure sent with a key of a member and a key of none
C22_Witness ==
    /\ JsonParsed
    /\ b_result.v.operation = T_Nest
    /\ b_request.body.doc.t = "dict"
    /\ DictHas(b_request.body.doc.v, T_Inner)
    /\ ~IsNone(DictGet(b_request.body.doc.v, T_Inner))
    /\ DictHas(DictGet(b_request.body.doc.v, T_Inner).v, T_zz)
    /\ DictGet(b_result.v.instance.v, T_Inner) = PDict(<< <<<<"I", "d">>, PStr(<<"v">>)>> >>)

\* a nested structure sent as null leaves no entry
C22_NullWitness ==
    /\ JsonParsed
    /\ b_result.v.operation = T_Nest
    /\ b_request.body.doc.t = "dict"
    /\ DictHas(b_request.body.doc.v, T_Inner)
    /\ IsNone(DictGet(b_request.body.doc.v, T_Inner))
    /\ b_result.v.instance = PDict(<< <<T_Name, PStr(<<"v">>)>> >>)

\* the body null parses to None
C22_NullBodyWitness ==
    /\ JsonParsed
    /\ IsNone(b_request.body.doc)
    /\ IsNone(b_result.v.instance)

\* a document member comes back with a key that no member names
C22_DocumentKept ==
    /\ JsonParsed
    /\ b_result.v.operation = T_Nest
    /\ b_result.v.instance.t = "dict"
    /\ DictHas(b_result.v.instance.v, T_Doc)
    /\ DictHas(DictGet(b_result.v.instance.v, T_Doc).v, T_zz)

\* ------------------------------------------------------------------------
\* Blobs: base64 in the serializer and in the parser
\* ------------------------------------------------------------------------
\* the longest blob value, in characters or bytes
MaxBlob == 3

\* bytes objects: sequences of 0..255
PBytes(b) == [t |-> "bytes", v |-> b]

\* the characters of blob values given as text; "U+00E9" stands for the one
\* character e with acute accent, which UTF-8 encodes in two bytes
BlobChars == {"M", "a", " ", "U+00E9"}

\* ord(c)
Ord(c) == IF c = "M" THEN 77 ELSE IF c = "a" THEN 97 ELSE IF c = " " THEN 32 ELSE 233

RECURSIVE encode_utf8(_)
\* str.encode("utf-8") for code points below 2048
encode_utf8(text) ==
    IF text = <<>> THEN <<>>
    ELSE (IF Ord(Head(text)) < 128 THEN <<Ord(Head(text))>>
          ELSE <<192 + (Ord(Head(text)) \div 64), 128 + (Ord(Head(text)) % 64)>>)
         \o encode_utf8(Tail(text))

\* the base64 alphabet, by sextet value + 1
B64Alphabet ==
    <<"A", "B", "C", "D", "E", "F", "G", "H", "I", "J", "K", "L", "M",
      "N", "O", "P", "Q", "R", "S", "T", "U", "V", "W", "X", "Y", "Z",
      "a", "b", "c", "d", "e", "f", "g", "h", "i", "j", "k", "l", "m",
      "n", "o", "p", "q", "r", "s", "t", "u", "v", "w", "x", "y", "z",
      "0", "1", "2", "3", "4", "5", "6", "7", "8", "9", "+", "/">>

B64Char(sextet) == B64Alphabet[sextet + 1]

IsB64Char(c) == \E n \in 1..64 : B64Alphabet[n] = c

B64Value(c) == (CHOOSE n \in 1..64 : B64Alphabet[n] = c) - 1

RECURSIVE b64encode(_)
\* base64.b64encode: four characters for every three bytes, "=" padding
b64encode(s) ==
    IF s = <<>> THEN <<>>
    ELSE IF Len(s) = 1
    THEN <<B64Char(s[1] \div 4), B64Char((s[1] % 4) * 16), "=", "=">>
    ELSE IF Len(s) = 2
    THEN <<B64Char(s[1] \div 4), B64Char((s[1] % 4) * 16 + (s[2] \div 16)),
           B64Char((s[2] % 16) * 4), "=">>
    ELSE <<B64Char(s[1] \div 4), B64Char((s[1] % 4) * 16 + (s[2] \div 16)),
           B64Char((s[2] % 16) * 4 + (s[3] \div 64)), B64Char(s[3] % 64)>>
         \o b64encode(SubSeq(s, 4, Len(s)))

RECURSIVE strip(_)
\* bytes.strip(): ASCII whitespace off both ends
strip(s) ==
    IF s # <<>> /\ Head(s) \in {" ", "\n", "\t", "\r"} THEN strip(Tail(s))
    ELSE IF s # <<>> /\ s[Len(s)] \in {" ", "\n", "\t", "\r"} THEN strip(SubSeq(s, 1, Len(s) - 1))
    ELSE s

RECURSIVE a2b_base64(_, _, _, _, _, _)
\* binascii.a2b_base64 without strict mode, as base64.b64decode calls it:
\* characters outside the alphabet are skipped, a complete pad sequence ends
\* the input, an incomplete last quad is an error
a2b_base64(data, i, quad_pos, leftchar, pads, bin_data) ==
    IF i > Len(data)
    THEN (IF quad_pos # 0 THEN Raise("binascii.Error") ELSE PBytes(bin_data))
    ELSE IF data[i] = "="
    THEN (IF quad_pos >= 2 /\ quad_pos + pads + 1 >= 4 THEN PBytes(bin_data)
          ELSE a2b_base64(data, i + 1, quad_pos, leftchar,
                          IF quad_pos >= 2 THEN pads + 1 ELSE pads, bin_data))
    ELSE IF ~IsB64Char(data[i])
    THEN a2b_base64(data, i + 1, quad_pos, leftchar, pads, bin_data)
    ELSE LET this_ch == B64Value(data[i])
         IN  IF quad_pos = 0
             THEN a2b_base64(data, i + 1, 1, this_ch, 0, bin_data)
             ELSE IF quad_pos = 1
             THEN a2b_base64(data, i + 1, 2, this_ch % 16, 0,
                             Append(bin_data, leftchar * 4 + (this_ch \div 16)))
             ELSE IF quad_pos = 2
             THEN a2b_base64(data, i + 1, 3, this_ch % 4, 0,
                             Append(bin_data, leftchar * 16 + (this_ch \div 4)))
             ELSE a2b_base64(data, i + 1, 0, 0, 0,
                             Append(bin_data, leftchar * 64 + this_ch))

\* base64.b64decode(s)
b64decode(s) == a2b_base64(s, 1, 0, 0, 0, <<>>)

\* a serializer that leaves a value given as text as it is
_get_base64_of_bytes_only(value) ==
    IF value.t = "str" THEN value ELSE PStr(strip(b64encode(value.v)))

\* ResponseSerializer._get_base64
_get_base64(value) ==
    PStr(strip(b64encode(IF value.t = "str" THEN encode_utf8(value.v) ELSE value.v)))

\* RequestParser._parse_blob on the text of a node or a string
_parse_blob(node) == b64decode(node)

\* ------------------------------------------------------------------------
\* SpecBlob: a blob value serialized, and the text parsed back
\* ------------------------------------------------------------------------
\* the byte values blobs are made of
BlobBytes == {0, 77, 255}

BlobValues ==
    {PBytes(b) : b \in UNION {[1..n -> BlobBytes] : n \in 0..MaxBlob}}
    \cup {PStr(s) : s \in UNION {[1..n -> BlobChars] : n \in 0..MaxBlob}}

InitBlob ==
    /\ c_value \in BlobValues
    /\ c_text = Pending
    /\ c_bytes = Pending
    /\ QueryUnused
    /\ SerializerUnused
    /\ SkeletonUnused
    /\ RestUnused
    /\ ThreadsUnused
    /\ BodyUnused
    /\ ResponseUnused
    /\ SqsUnused

\* _serialize_type_blob: the text put into the body
SerializeBlob ==
    /\ c_text = Pending
    /\ c_text' = _get_base64(c_value)
    /\ UNCHANGED <<c_value, c_bytes, vars_query, vars_serializer, vars_skeleton>>
    /\ UNCHANGED <<vars_rest, vars_threads, vars_body, vars_response, vars_sqs>>

\* _parse_blob of that text
ParseBlob ==
    /\ c_text # Pending
    /\ c_bytes = Pending
    /\ c_bytes' = _parse_blob(c_text.v)
    /\ UNCHANGED <<c_value, c_text, vars_query, vars_serializer, vars_skeleton>>
    /\ UNCHANGED <<vars_rest, vars_threads, vars_body, vars_response, vars_sqs>>

NextBlob == SerializeBlob \/ ParseBlob

SpecBlob == InitBlob /\ [][NextBlob]_vars

\* the bytes a blob value stands for
BytesOf(value) == IF value.t = "str" THEN encode_utf8(value.v) ELSE value.v

\* C23: blob values round-trip: the serializer emits base64 text for the value,
\* given as text or as raw bytes (four characters of the base64 alphabet or
\* padding for every three bytes begun), and the parser's blob decoding of
\* that text returns the original bytes
C23_BlobRoundTrip ==
    /\ c_text.t = "str" =>
           /\ Len(c_text.v) = 4 * ((Len(BytesOf(c_value)) + 2) \div 3)
           /\ \A i \in 1..Len(c_text.v) : IsB64Char(c_text.v[i]) \/ c_text.v[i] = "="
    /\ c_bytes.t \notin {"pending", "unused"} => c_bytes = PBytes(BytesOf(c_value))

\* a text value with a two-byte character, encoded with padding and decoded
C23_Witness ==
    /\ c_value.t = "str"
    /\ Len(c_value.v) = 2
    /\ c_value.v[1] = "U+00E9"
    /\ c_text.t = "str"
    /\ c_text.v[Len(c_text.v)] = "="
    /\ c_bytes = PBytes(<<195, 169, 195, 169>>)

\* raw bytes that are not text in any encoding, decoded to themselves
C23_BytesWitness ==
    /\ c_value = PBytes(<<255, 0, 77>>)
    /\ c_text = PStr(<<"/", "w", "B", "N">>)
    /\ c_bytes = c_value

\* ------------------------------------------------------------------------
\* Properties of the Skeleton (Spec): parse, lookup, handler, serialize
\* ------------------------------------------------------------------------
\* the parse of the request at hand gave an operation
ParseSucceeded == sk_operation.t = "some"

\* C24: within one invocation at most one handler is invoked; it is invoked
\* only once the parse gave an operation and the lookup found an entry, it is
\* the table's entry under the parsed operation's name, and nothing is
\* serialized before it ran; an invocation whose parse failed or whose
\* operation has no table entry ends with no handler invoked.
C24_ParseLookupHandlerSerialize ==
    /\ Len(sk_handlers) <= 1
    /\ sk_handlers # <<>> =>
          /\ ParseSucceeded
          /\ DictHas(dispatch_table, sk_operation.v.name)
          /\ sk_handlers[1] = DictGet(dispatch_table, sk_operation.v.name)
          /\ sk_handlers[1].operation = sk_operation.v.name
          /\ sk_pc \in {"handler", "serialize", "except", "done"}
    /\ sk_pc \in {"idle", "parse", "lookup", "call"} => sk_handlers = <<>>
    /\ sk_pc \in {"serialize", "except"} => Len(sk_handlers) = 1
    /\ (Done /\ (~ParseSucceeded \/ DispatchGap)) => sk_handlers = <<>>

\* a handler that is not the first entry of a table of several ran for its
\* operation and its result is about to be serialized
C24_Witness ==
    /\ sk_pc = "serialize"
    /\ Len(dispatch_table) > 1
    /\ Len(sk_handlers) = 1
    /\ sk_handlers[1] # dispatch_table[1][2]
    /\ sk_handlers[1].operation = sk_operation.v.name

\* an invocation ended by a failed parse, no handler invoked
C24_ParseFailedWitness == Done /\ ~ParseSucceeded /\ sk_handlers = <<>>

\* an invocation ended by a missing table entry, no handler invoked
C24_NoEntryWitness == Done /\ DispatchGap /\ sk_handlers = <<>>

\* the handler called for the request at hand raised NotImplementedError
StubRaised ==
    /\ Len(sk_handlers) = 1
    /\ HandlerRaised
    /\ sk_outcome.v.type = "NotImplementedError"

\* C25: when a registered handler raises NotImplementedError, invoke returns
\* an error response of status 501 and code InternalFailure whose message
\* carries the operation's name and the service's name; the error does not
\* leave invoke.
C25_StubAnswered501 ==
    (Done /\ StubRaised) =>
        /\ ~IsRaise(sk_response)
        /\ IsResponse(sk_response)
        /\ sk_response.v.status_code = 501
        /\ DecodedCode(sk_response) = T_InternalFailure
        /\ DecodedMessage(sk_response)
              = T_NotImplementedPrefix \o sk_operation.v.name \o T_NotImplementedInfix
                \o sk_operation.v.service_model.service_name \o T_NotImplementedSuffix
        /\ Contains(DecodedMessage(sk_response), sk_operation.v.name)
        /\ Contains(DecodedMessage(sk_response), sk_operation.v.service_model.service_name)

\* the handler registered for Send raised NotImplementedError and invoke
\* returned the 501 response
C25_Witness ==
    /\ Done /\ StubRaised
    /\ sk_operation.v.name = OpSend.name
    /\ DictHas(dispatch_table, OpSend.name)
    /\ IsResponse(sk_response)
    /\ sk_response.v.status_code = 501

\* ------------------------------------------------------------------------
\* Properties of the Query parser (SpecQuery): the keys a member is read from
\* ------------------------------------------------------------------------
RECURSIVE DottedOnly_from(_, _, _, _)
\* the entries of node whose key is name, a dot and a rest
DottedOnly_from(name, node, i, acc) ==
    IF i > Len(node) THEN acc
    ELSE IF StartsWith(node[i][1], name \o <<".">>)
         THEN DottedOnly_from(name, node, i + 1, Append(acc, node[i]))
         ELSE DottedOnly_from(name, node, i + 1, acc)

DottedOnly(name, node) == DottedOnly_from(name, node, 1, <<>>)

\* the value of a member in a parsed structure, None when it has no entry
MemberValue(parsed, member) ==
    IF parsed.t = "dict" /\ DictHas(parsed.v, member) THEN DictGet(parsed.v, member) ELSE None

SameValue(a, b) ==
    IF IsRaise(a) \/ IsRaise(b) THEN FALSE
    ELSE IF IsNone(a) \/ IsNone(b) THEN IsNone(a) /\ IsNone(b)
    ELSE a.t = b.t /\ a.v = b.v

\* the input shape of the operation the parser named
ParsedInputShape == service_operation_model(QueryOperations, q_result.v.operation).input_shape

\* C26: the value parsed for a list, map or structure member is the value the
\* body's keys of the form '<wire name>.<rest>' give by themselves: a key that
\* begins with the wire name and goes on without the dot, a sibling of a
\* longer name for one, adds no element and no field to the member.
C26_OnlyDottedKeysContribute ==
    Parsed =>
        LET shape == ParsedInputShape
            node == parse_qs_first(q_body)
        IN  \A j \in 1..Len(shape.members) :
                LET member == shape.members[j][1]
                    member_shape == shape.members[j][2]
                    wire == _member_wire_name(member, member_shape)
                IN  IsComplex(member_shape) =>
                        SameValue(MemberValue(q_result.v.instance, member),
                                  _process_member(wire, member_shape, DottedOnly(wire, node)))

\* the body of a TagP request holds the key Tags1 and no key Tag.<rest>, and
\* the list member Tag came out with an element
C26_SiblingContributes ==
    /\ Parsed
    /\ q_result.v.operation = OpTagP.name
    /\ DictHas(parse_qs_first(q_body), <<"T", "a", "g", "s", "1">>)
    /\ DottedOnly(<<"T", "a", "g">>, parse_qs_first(q_body)) = <<>>
    /\ MemberValue(q_result.v.instance, <<"T", "a", "g">>).t = "list"

\* a list member read from dotted keys alone, its sibling left out
C26_DottedWitness ==
    /\ Parsed
    /\ q_result.v.operation = OpTagP.name
    /\ DottedOnly(<<"T", "a", "g">>, parse_qs_first(q_body)) # <<>>
    /\ ~DictHas(parse_qs_first(q_body), <<"T", "a", "g", "s", "1">>)
    /\ MemberValue(q_result.v.instance, <<"T", "a", "g">>).t = "list"

\* ------------------------------------------------------------------------
\* The SQS provider: queues, their index by URL and the calls of its clients
\* ------------------------------------------------------------------------
\* del d[k]
DictDel(d, k) == SelectSeq(d, LAMBDA entry : entry[1] # k)

\* the characters of ^[a-zA-Z0-9_-]{1,80}$
QueueNameChars ==
    {"a", "b", "c", "d", "e", "f", "g", "h", "i", "j", "k", "l", "m", "n", "o", "p", "q", "r",
     "s", "t", "u", "v", "w", "x", "y", "z", "A", "B", "C", "D", "E", "F", "G", "H", "I", "J",
     "K", "L", "M", "N", "O", "P", "Q", "R", "S", "T", "U", "V", "W", "X", "Y", "Z", "0", "1",
     "2", "3", "4", "5", "6", "7", "8", "9", "_", "-"}

\* TRUE when assert_queue_name(queue_name) does not raise
assert_queue_name(queue_name) ==
    /\ Len(queue_name) \in 1..80
    /\ \A i \in 1..Len(queue_name) : queue_name[i] \in QueueNameChars

QueueKey(region, account_id, name) == [region |-> region, account_id |-> account_id, name |-> name]

\* get_edge_url()
get_edge_url == "http://localhost:4566"

\* "{host}/{account_id}/{name}": the parts of the text, '/' being no
\* character of an account id or of a queue name
SqsQueue_url(key) == <<get_edge_url, key.account_id, key.name>>

T_DelaySeconds == "DelaySeconds"

\* the attributes a new queue starts with (those the calls modelled here read)
default_attributes == << <<T_DelaySeconds, "0">> >>

\* SqsQueue(key, attributes, tags)
SqsQueue(key, attributes, tags) ==
    [key |-> key,
     tags |-> tags,
     messages |-> <<>>,
     attributes |-> DictUpdate(default_attributes, attributes),
     purge_in_progress |-> FALSE,
     permissions |-> {}]

\* TRUE when _assert_permission(context, queue) does not raise
_assert_permission(account_id, queue) ==
    \/ account_id = queue.key.account_id
    \/ \E permission \in queue.permissions : permission.account_id = account_id

\* int(text) of the attribute values in use
IntOfText(text) == IF text = "0" THEN 0 ELSE 1

\* delay_seconds = delay_seconds or queue.attributes.get(DelaySeconds, 0):
\* an integer argument, None being 0 here, or the attribute's text
EffectiveDelay(delay_seconds, queue) ==
    IF delay_seconds # 0
    THEN [truthy |-> TRUE, seconds |-> delay_seconds]
    ELSE IF DictHas(queue.attributes, T_DelaySeconds)
    THEN LET text == DictGet(queue.attributes, T_DelaySeconds)
         IN  [truthy |-> text # "", seconds |-> IF text = "" THEN 0 ELSE IntOfText(text)]
    ELSE [truthy |-> FALSE, seconds |-> 0]

\* ------------------------------------------------------------------------
\* SpecSqs: one SqsProvider called by concurrent clients
\* ------------------------------------------------------------------------
\* calls made to the provider in one behaviour
MaxCalls == 4

SqsRegions == {"us-east-1", "eu-west-1"}

\* the account of every caller: the owner of the queues it creates
SqsAccounts == {"000000000000"}

SqsQueueNames == {<<"q">>, <<>>}

SqsUrls == {SqsQueue_url(QueueKey(r, a, <<"q">>)) : r \in SqsRegions, a \in SqsAccounts}

\* the attributes a client creates a queue with: none, or an empty DelaySeconds
SqsAttributeChoices == {<<>>, << <<T_DelaySeconds, "">> >>}

\* delay_seconds of send_message: absent, which 0 stands for
SqsDelays == {0}

\* max_number_of_messages of receive_message, 0 for an absent one
SqsMaxNumbers == {0, 2, -1}

\* the Timer threads there can be
SqsTimers == [queue : 1..MaxCalls, message : 1..MaxCalls]

\* a client that is in no call
NoCall ==
    [op |-> "none", pc |-> "idle", key |-> <<>>, attributes |-> <<>>, queue |-> 0,
     account_id |-> "", delay_seconds |-> 0, max |-> 0, num |-> 0, got |-> <<>>, message |-> 0]

\* how the last finished call ended
Ended(client, op, outcome, queue, max, got) ==
    [client |-> client, op |-> op, outcome |-> outcome, queue |-> queue, max |-> max, got |-> got]

\* SqsProvider()
InitSqs ==
    /\ queues = <<>>
    /\ queue_url_index = <<>>
    /\ sq_heap = <<>>
    /\ sq_calls = [t \in Threads |-> NoCall]
    /\ sq_timers = {}
    /\ sq_sent = <<>>
    /\ sq_received = <<>>
    /\ sq_budget = 0
    /\ sq_last = Ended(0, "none", "none", 0, 0, <<>>)
    /\ QueryUnused
    /\ SerializerUnused
    /\ SkeletonUnused
    /\ RestUnused
    /\ ThreadsUnused
    /\ BodyUnused
    /\ ResponseUnused
    /\ CodecUnused

vars_sqs_frame == <<vars_query, vars_serializer, vars_skeleton, vars_rest, vars_threads,
                    vars_body, vars_response, vars_codec>>

\* a call is made by a client that is in none
CanCall(t) == sq_calls[t].pc = "idle" /\ sq_budget < MaxCalls

\* the call of t is over with the given outcome
Ends(t, op, outcome, queue, max, got) ==
    /\ sq_calls' = [sq_calls EXCEPT ![t] = NoCall]
    /\ sq_last' = Ended(t, op, outcome, queue, max, got)

\* _require_queue_by_url and _assert_permission: the queue, or what is raised
RequireQueue(account_id, queue_url) ==
    IF ~DictHas(queue_url_index, queue_url) THEN Raise("NonExistentQueue")
    ELSE IF ~_assert_permission(account_id, sq_heap[DictGet(queue_url_index, queue_url)])
    THEN Raise("AccessDeniedException")
    ELSE Some(DictGet(queue_url_index, queue_url))

\* create_queue up to the test k in self.queues, made outside the mutex
CreateQueue(t, region, account_id, queue_name, attributes) ==
    /\ CanCall(t)
    /\ sq_budget' = sq_budget + 1
    /\ LET k == QueueKey(region, account_id, queue_name)
       IN  IF ~assert_queue_name(queue_name)
           THEN Ends(t, "create_queue", "InvalidParameterValues", 0, 0, <<>>)
           ELSE IF DictHas(queues, k)
           THEN Ends(t, "create_queue", "QueueNameExists", DictGet(queues, k), 0, <<>>)
           ELSE /\ sq_calls' = [sq_calls EXCEPT ![t] =
                                   [NoCall EXCEPT !.op = "create_queue", !.pc = "add", !.key = k,
                                                  !.attributes = attributes]]
                /\ UNCHANGED sq_last
    /\ UNCHANGED <<queues, queue_url_index, sq_heap, sq_timers, sq_sent, sq_received>>
    /\ UNCHANGED vars_sqs_frame

\* queue = SqsQueue(k, attributes, tags); self._add_queue(queue), under the mutex
AddQueue(t) ==
    /\ sq_calls[t].pc = "add"
    /\ LET queue == SqsQueue(sq_calls[t].key, sq_calls[t].attributes, <<>>)
           id == Len(sq_heap) + 1
       IN  /\ sq_heap' = Append(sq_heap, queue)
           /\ queues' = DictSet(queues, queue.key, id)
           /\ queue_url_index' = DictSet(queue_url_index, SqsQueue_url(queue.key), id)
           /\ Ends(t, "create_queue", "ok", id, 0, <<>>)
    /\ UNCHANGED <<sq_timers, sq_sent, sq_received, sq_budget>>
    /\ UNCHANGED vars_sqs_frame

\* delete_queue, the whole of it under the mutex
DeleteQueue(t, account_id, queue_url) ==
    /\ CanCall(t)
    /\ sq_budget' = sq_budget + 1
    /\ LET queue == RequireQueue(account_id, queue_url)
       IN  IF IsRaise(queue)
           THEN /\ Ends(t, "delete_queue", queue.v, 0, 0, <<>>)
                /\ UNCHANGED <<queues, queue_url_index>>
           ELSE IF ~DictHas(queues, sq_heap[queue.v].key)
           THEN /\ Ends(t, "delete_queue", "KeyError", queue.v, 0, <<>>)
                /\ UNCHANGED <<queues, queue_url_index>>
           ELSE /\ queues' = DictDel(queues, sq_heap[queue.v].key)
                /\ queue_url_index' = DictDel(queue_url_index, queue_url)
                /\ Ends(t, "delete_queue", "ok", queue.v, 0, <<>>)
    /\ UNCHANGED <<sq_heap, sq_timers, sq_sent, sq_received>>
    /\ UNCHANGED vars_sqs_frame

\* send_message up to the Message it builds
SendMessage(t, account_id, queue_url, delay_seconds) ==
    /\ CanCall(t)
    /\ sq_budget' = sq_budget + 1
    /\ LET queue == RequireQueue(account_id, queue_url)
       IN  IF IsRaise(queue)
           THEN /\ Ends(t, "send_message", queue.v, 0, 0, <<>>)
                /\ UNCHANGED sq_sent
           ELSE /\ sq_sent' = Append(sq_sent, [queue |-> queue.v, client |-> t,
                                               timer |-> FALSE, seconds |-> 0])
                /\ sq_calls' = [sq_calls EXCEPT ![t] =
                                   [NoCall EXCEPT !.op = "send_message", !.pc = "put",
                                                  !.queue = queue.v,
                                                  !.delay_seconds = delay_seconds,
                                                  !.message = Len(sq_sent) + 1]]
                /\ UNCHANGED sq_last
    /\ UNCHANGED <<queues, queue_url_index, sq_heap, sq_timers, sq_received>>
    /\ UNCHANGED vars_sqs_frame

\* if delay_seconds: threading.Timer(...).start() else: queue.messages.put_nowait(message)
PutMessage(t) ==
    /\ sq_calls[t].pc = "put"
    /\ LET call == sq_calls[t]
           delay == EffectiveDelay(call.delay_seconds, sq_heap[call.queue])
       IN  /\ IF delay.truthy
              THEN /\ sq_timers' = sq_timers \cup {[queue |-> call.queue, message |-> call.message]}
                   /\ UNCHANGED sq_heap
              ELSE /\ sq_heap' = [sq_heap EXCEPT ![call.queue].messages = Append(@, call.message)]
                   /\ UNCHANGED sq_timers
           /\ sq_sent' = [sq_sent EXCEPT ![call.message].timer = delay.truthy,
                                         ![call.message].seconds = delay.seconds]
           /\ Ends(t, "send_message", "ok", call.queue, 0, <<>>)
    /\ UNCHANGED <<queues, queue_url_index, sq_received, sq_budget>>
    /\ UNCHANGED vars_sqs_frame

\* the thread of a Timer calls queue.messages.put_nowait(message)
TimerRuns(timer) ==
    /\ timer \in sq_timers
    /\ sq_timers' = sq_timers \ {timer}
    /\ sq_heap' = [sq_heap EXCEPT ![timer.queue].messages = Append(@, timer.message)]
    /\ UNCHANGED <<queues, queue_url_index, sq_calls, sq_sent, sq_received, sq_budget, sq_last>>
    /\ UNCHANGED vars_sqs_frame

\* receive_message up to num = max_number_of_messages or 1
ReceiveMessage(t, account_id, queue_url, max_number_of_messages) ==
    /\ CanCall(t)
    /\ sq_budget' = sq_budget + 1
    /\ LET queue == RequireQueue(account_id, queue_url)
       IN  IF IsRaise(queue)
           THEN Ends(t, "receive_message", queue.v, 0, max_number_of_messages, <<>>)
           ELSE /\ sq_calls' = [sq_calls EXCEPT ![t] =
                                   [NoCall EXCEPT !.op = "receive_message", !.pc = "get",
                                                  !.queue = queue.v,
                                                  !.max = max_number_of_messages,
                                                  !.num = IF max_number_of_messages # 0
                                                          THEN max_number_of_messages ELSE 1]]
                /\ UNCHANGED sq_last
    /\ UNCHANGED <<queues, queue_url_index, sq_heap, sq_timers, sq_sent, sq_received>>
    /\ UNCHANGED vars_sqs_frame

\* one round of while num: get_nowait(), Empty ending the loop, then num -= 1
GetMessage(t) ==
    /\ sq_calls[t].pc = "get"
    /\ LET call == sq_calls[t]
           messages == sq_heap[call.queue].messages
       IN  IF messages = <<>>
           THEN /\ Ends(t, "receive_message", "ok", call.queue, call.max, call.got)
                /\ UNCHANGED <<sq_heap, sq_received>>
           ELSE /\ sq_heap' = [sq_heap EXCEPT ![call.queue].messages = Tail(@)]
                /\ sq_received' = Append(sq_received, Head(messages))
                /\ IF call.num - 1 = 0
                   THEN Ends(t, "receive_message", "ok", call.queue, call.max,
                             Append(call.got, Head(messages)))
                   ELSE /\ sq_calls' = [sq_calls EXCEPT ![t].num = @ - 1,
                                                        ![t].got = Append(@, Head(messages))]
                        /\ UNCHANGED sq_last
    /\ UNCHANGED <<queues, queue_url_index, sq_timers, sq_sent, sq_budget>>
    /\ UNCHANGED vars_sqs_frame

\* purge_queue up to the mutex
PurgeQueue(t, account_id, queue_url) ==
    /\ CanCall(t)
    /\ sq_budget' = sq_budget + 1
    /\ LET queue == RequireQueue(account_id, queue_url)
       IN  IF IsRaise(queue)
           THEN Ends(t, "purge_queue", queue.v, 0, 0, <<>>)
           ELSE /\ sq_calls' = [sq_calls EXCEPT ![t] =
                                   [NoCall EXCEPT !.op = "purge_queue", !.pc = "flag",
                                                  !.queue = queue.v]]
                /\ UNCHANGED sq_last
    /\ UNCHANGED <<queues, queue_url_index, sq_heap, sq_timers, sq_sent, sq_received>>
    /\ UNCHANGED vars_sqs_frame

\* the flag set without the test of purge_in_progress
PurgeFlag_unconditional(queue) == [raises |-> FALSE, purge_in_progress |-> TRUE]

\* with self._mutex: if queue.purge_in_progress: raise ...; queue.purge_in_progress = True:
\* whether the call raises, and the flag it leaves
PurgeFlag(queue) ==
    IF queue.purge_in_progress
    THEN [raises |-> TRUE, purge_in_progress |-> queue.purge_in_progress]
    ELSE [raises |-> FALSE, purge_in_progress |-> TRUE]

\* purge_queue inside the mutex: the call is refused or goes on to drain
PurgeTestAndSet(t) ==
    /\ sq_calls[t].pc = "flag"
    /\ LET call == sq_calls[t]
           flag == PurgeFlag(sq_heap[call.queue])
       IN  /\ sq_heap' = [sq_heap EXCEPT ![call.queue].purge_in_progress = flag.purge_in_progress]
           /\ IF flag.raises
              THEN Ends(t, "purge_queue", "PurgeQueueInProgress", call.queue, 0, <<>>)
              ELSE /\ sq_calls' = [sq_calls EXCEPT ![t].pc = "drain"]
                   /\ UNCHANGED sq_last
    /\ UNCHANGED <<queues, queue_url_index, sq_timers, sq_sent, sq_received, sq_budget>>
    /\ UNCHANGED vars_sqs_frame

\* one round of while True: queue.messages.get_nowait(), Empty ending the loop
PurgeGet(t) ==
    /\ sq_calls[t].pc = "drain"
    /\ LET call == sq_calls[t]
       IN  IF sq_heap[call.queue].messages = <<>>
           THEN /\ sq_calls' = [sq_calls EXCEPT ![t].pc = "finally"]
                /\ UNCHANGED sq_heap
           ELSE /\ sq_heap' = [sq_heap EXCEPT ![call.queue].messages = Tail(@)]
                /\ sq_calls' = [sq_calls EXCEPT ![t].got = Append(@, Head(sq_heap[call.queue].messages))]
    /\ UNCHANGED <<queues, queue_url_index, sq_timers, sq_sent, sq_received, sq_budget, sq_last>>
    /\ UNCHANGED vars_sqs_frame

\* finally: queue.purge_in_progress = False, and the call returns
PurgeFinally(t) ==
    /\ sq_calls[t].pc = "finally"
    /\ sq_heap' = [sq_heap EXCEPT ![sq_calls[t].queue].purge_in_progress = FALSE]
    /\ Ends(t, "purge_queue", "ok", sq_calls[t].queue, 0, sq_calls[t].got)
    /\ UNCHANGED <<queues, queue_url_index, sq_timers, sq_sent, sq_received, sq_budget>>
    /\ UNCHANGED vars_sqs_frame

NextSqs ==
    \/ \E t \in Threads, region \in SqsRegions, account_id \in SqsAccounts,
          queue_name \in SqsQueueNames, attributes \in SqsAttributeChoices :
          CreateQueue(t, region, account_id, queue_name, attributes)
    \/ \E t \in Threads : AddQueue(t)
    \/ \E t \in Threads, account_id \in SqsAccounts, queue_url \in SqsUrls :
          DeleteQueue(t, account_id, queue_url)
    \/ \E t \in Threads, account_id \in SqsAccounts, queue_url \in SqsUrls,
          delay_seconds \in SqsDelays :
          SendMessage(t, account_id, queue_url, delay_seconds)
    \/ \E t \in Threads : PutMessage(t)
    \/ \E timer \in SqsTimers : TimerRuns(timer)
    \/ \E t \in Threads, account_id \in SqsAccounts, queue_url \in SqsUrls,
          max_number_of_messages \in SqsMaxNumbers :
          ReceiveMessage(t, account_id, queue_url, max_number_of_messages)
    \/ \E t \in Threads : GetMessage(t)
    \/ \E t \in Threads, account_id \in SqsAccounts, queue_url \in SqsUrls :
          PurgeQueue(t, account_id, queue_url)
    \/ \E t \in Threads : PurgeTestAndSet(t)
    \/ \E t \in Threads : PurgeGet(t)
    \/ \E t \in Threads : PurgeFinally(t)

SpecSqs == InitSqs /\ [][NextSqs]_vars

\* ------------------------------------------------------------------------
\* Properties of the SQS provider (SpecSqs)
\* ------------------------------------------------------------------------
\* the queue objects a dict holds
DictValues(d) == {d[i][2] : i \in 1..Len(d)}

\* no create_queue call is between its test and its _add_queue
NoCreateUnderWay == \A t \in Threads : sq_calls[t].op # "create_queue"

\* C27: whatever create_queue and delete_queue calls were made, queues and
\* queue_url_index hold the same queue objects.
C27_IndexHoldsSameQueues == DictValues(queues) = DictValues(queue_url_index)

\* two queues of one account and name in two regions were created one call
\* after the other: both are in queues, the index holds the later one only
C27_RegionsShareUrl ==
    /\ NoCreateUnderWay
    /\ Len(queues) = 2
    /\ Len(queue_url_index) = 1
    /\ queues[1][1].region # queues[2][1].region
    /\ queues[1][1].account_id = queues[2][1].account_id
    /\ DictValues(queue_url_index) = {queues[2][2]}

\* a queue deleted by its URL after the index lost it to a queue of another
\* region: the index is empty and queues still holds the first queue
C27_OrphanAfterDelete ==
    /\ sq_last.op = "delete_queue" /\ sq_last.outcome = "ok"
    /\ queue_url_index = <<>>
    /\ Len(queues) = 1

\* C28: while a queue exists under a key no further create_queue call for
\* that key succeeds, however the calls interleave: no step puts another
\* queue object under a key that queues holds, and the queue object that is
\* there keeps its key, attributes and tags and loses no message to the step.
C28_OneCreationPerKey ==
    [][\A i \in 1..Len(queues) :
          LET k == queues[i][1]
              id == queues[i][2]
          IN  /\ DictHas(queues', k) => DictGet(queues', k) = id
              /\ (\E t \in Threads : sq_calls[t].pc = "add" /\ sq_calls[t].key = k
                                     /\ sq_calls'[t].pc = "idle")
                    => /\ sq_last'.outcome = "QueueNameExists"
                       /\ sq_heap'[id] = sq_heap[id]]_vars

\* two create_queue calls for one key, each past its test before the other
\* added its queue, both succeeded: the second queue object took the place
\* of the first
C28_BothCreatesSucceeded ==
    /\ sq_budget = 2
    /\ Len(sq_heap) = 2
    /\ sq_heap[1].key = sq_heap[2].key
    /\ \A t \in Threads : sq_calls[t].pc = "idle"
    /\ sq_last.op = "create_queue" /\ sq_last.outcome = "ok"
    /\ queues = << <<sq_heap[2].key, 2>> >>

\* a create_queue call for a key that queues holds raised QueueNameExists
C28_SecondCreateRaises ==
    /\ sq_last.op = "create_queue" /\ sq_last.outcome = "QueueNameExists"
    /\ Len(sq_heap) = 1
    /\ queues = << <<sq_heap[1].key, 1>> >>

\* the clients whose purge_queue call is past the mutex and drains queue id
Drainers(id) ==
    {t \in Threads : /\ sq_calls[t].op = "purge_queue"
                     /\ sq_calls[t].pc \in {"drain", "finally"}
                     /\ sq_calls[t].queue = id}

\* t is about to test purge_in_progress and finds it set
ArrivesDuringPurge(t) ==
    /\ sq_calls[t].pc = "flag"
    /\ sq_heap[sq_calls[t].queue].purge_in_progress

\* C29: at most one purge_queue call drains a queue at a time, and the flag
\* is set exactly while one does; a call that finds purge_in_progress set
\* raises PurgeQueueInProgress, removes no message and leaves the flag set;
\* when the draining call returns, purge_in_progress is false.
C29_OnePurgeAtATime ==
    /\ [](\A id \in 1..Len(sq_heap) :
              /\ Cardinality(Drainers(id)) <= 1
              /\ sq_heap[id].purge_in_progress <=> Drainers(id) # {})
    /\ [][\A t \in Threads :
              /\ (ArrivesDuringPurge(t) /\ sq_calls'[t] # sq_calls[t])
                    => /\ sq_last' = Ended(t, "purge_queue", "PurgeQueueInProgress",
                                           sq_calls[t].queue, 0, <<>>)
                       /\ sq_calls'[t] = NoCall
                       /\ sq_heap' = sq_heap
              /\ (t \in Drainers(sq_calls[t].queue) /\ sq_calls'[t].pc = "idle")
                    => /\ ~sq_heap'[sq_calls[t].queue].purge_in_progress
                       /\ sq_last'.outcome = "ok"]_vars

\* a purge_queue call was refused while another client drains the queue: the
\* flag is still set and the queue still holds a message
C29_Witness ==
    /\ sq_last.op = "purge_queue" /\ sq_last.outcome = "PurgeQueueInProgress"
    /\ Drainers(sq_last.queue) # {}
    /\ sq_heap[sq_last.queue].purge_in_progress
    /\ sq_heap[sq_last.queue].messages # <<>>

\* a purge_queue call drained a message and returned: the flag is clear
C29_DrainedWitness ==
    /\ sq_last.op = "purge_queue" /\ sq_last.outcome = "ok"
    /\ sq_last.got # <<>>
    /\ ~sq_heap[sq_last.queue].purge_in_progress
    /\ sq_heap[sq_last.queue].messages = <<>>

\* message m was sent without delay: no delay_seconds given and none in the
\* queue's attributes
SentWithoutDelay(m) == sq_sent[m].seconds = 0

\* a was sent before b: to the same queue by the same client, whose calls
\* follow one another
SentBefore(a, b) ==
    /\ a < b
    /\ sq_sent[a].queue = sq_sent[b].queue
    /\ sq_sent[a].client = sq_sent[b].client

\* no message is handed out by two get_nowait calls
ReceivedAtMostOnce ==
    \A i \in 1..Len(sq_received) : \A j \in 1..Len(sq_received) :
        i # j => sq_received[i] # sq_received[j]

\* messages sent without delay are handed out in the order sent
ReceivedInOrderSent ==
    \A i \in 1..Len(sq_received) : \A j \in 1..Len(sq_received) :
        (/\ i < j
         /\ SentWithoutDelay(sq_received[i])
         /\ SentWithoutDelay(sq_received[j]))
            => ~SentBefore(sq_received[j], sq_received[i])

\* the most a receive_message call may return: the maximum given, one when
\* none is given, nothing for a maximum below zero
MaxReturned(max_number_of_messages) ==
    IF max_number_of_messages = 0 THEN 1
    ELSE IF max_number_of_messages < 0 THEN 0
    ELSE max_number_of_messages

ReceivedAtMostMax ==
    /\ \A t \in Threads :
          sq_calls[t].op = "receive_message" => Len(sq_calls[t].got) <= MaxReturned(sq_calls[t].max)
    /\ (sq_last.op = "receive_message" /\ sq_last.outcome = "ok")
          => Len(sq_last.got) <= MaxReturned(sq_last.max)

\* C30: a message sent without delay is returned by at most one
\* receive_message call, the messages of a queue are returned in the order
\* they were sent, and one call returns at most max_number_of_messages
\* messages, one when no maximum is given.
C30_OnceInOrderAtMostMax ==
    /\ ReceivedAtMostOnce
    /\ ReceivedInOrderSent
    /\ ReceivedAtMostMax

\* a client sent two messages without delay to a queue of default
\* attributes, one call after the other, and a receive_message call that
\* asked for two returned the second before the first
C30_OutOfOrder ==
    /\ Len(sq_sent) = 2
    /\ SentBefore(1, 2)
    /\ SentWithoutDelay(1) /\ SentWithoutDelay(2)
    /\ sq_sent[1].timer /\ sq_sent[2].timer
    /\ sq_last.op = "receive_message" /\ sq_last.outcome = "ok"
    /\ sq_last.max = 2
    /\ sq_last.got = <<2, 1>>

\* a receive_message call given a negative maximum returned a message
C30_MoreThanMax ==
    /\ sq_last.op = "receive_message" /\ sq_last.outcome = "ok"
    /\ sq_last.max < 0
    /\ Len(sq_last.got) > 0

\* C30, the first part alone: no message is returned twice
C30_AtMostOnce == ReceivedAtMostOnce

\* C30, ordering for the messages put by send_message itself, which is the
\* case of a queue whose DelaySeconds attribute is empty
C30_InOrderWhenPutDirectly ==
    \A i \in 1..Len(sq_received) : \A j \in 1..Len(sq_received) :
        (i < j /\ ~sq_sent[sq_received[i]].timer /\ ~sq_sent[sq_received[j]].timer)
            => ~SentBefore(sq_received[j], sq_received[i])

====
